---- MODULE Spec2Model ----
(***************************************************************************)
(* A model of otelpgx: the pgx tracer hooks of Tracer (src/tracer.go,      *)
(* lines 1-647) and the pool statistics sampler recordStats                *)
(* (src/tracer_benchmark_test.go, lines 293-525).                          *)
(*                                                                         *)
(* Strings the code takes apart or concatenates are sequences of           *)
(* one-character strings; time.Time and time.Duration are counted in       *)
(* microseconds.                                                           *)
(***************************************************************************)
EXTENDS Integers, Sequences, FiniteSets, TLC

VARIABLES
    now,              \* the wall clock read by time.Now(), in microseconds
    options,          \* the options NewTracer was called with
    tracer,           \* the fields of the Tracer built by NewTracer
    meter,            \* what the meter answered when the instruments were created
    handled,          \* the errors handed to otel.Handle, in order
    calls,            \* per database call: the hook position and its locals
    spans,            \* the tracing backend's spans, by span id
    durationSamples,  \* the Record calls received by the duration histogram
    errorAdds,        \* the Add calls received by the error counter
    attrPool,         \* Tracer.attributeSlicePool and the arrays it made
    optsPool,         \* Tracer.spanStartOptionsPool and the arrays it made
    named,            \* the calls of Tracer.sqlOperationName made so far, with what they gave
    lock,             \* recordStats: who holds the mutex lock
    setup,            \* recordStats: where the call is, and what it returns
    backend,          \* the meter's side of recordStats: instruments, callbacks
    sampler,          \* recordStats: the variables its callback captures
    dbPool,           \* the live statistics of the pgxpool.Pool
    inv,              \* per invocation of the callback: its position and locals
    checks,           \* the interval tests of the callback, in order, with outcome
    observations      \* per invocation: the ObserveInt64 calls the observer received

hookVars == <<options, tracer, meter, handled, calls, spans, durationSamples, errorAdds,
              attrPool, optsPool>>

statsVars == <<lock, setup, backend, sampler, dbPool, inv, checks, observations>>

vars == <<now, named, options, tracer, meter, handled, calls, spans, durationSamples, errorAdds,
          attrPool, optsPool, lock, setup, backend, sampler, dbPool, inv, checks,
          observations>>

---------------------------------------------------------------------------
(* Bounds of the model. *)

MaxCalls == 2
MaxItems == 2
MaxTicks == 2
TickMicros == 1500

Calls == 1..MaxCalls

---------------------------------------------------------------------------
(* Strings. *)

S_query == <<"q", "u", "e", "r", "y", " ">>
S_prepare == <<"p", "r", "e", "p", "a", "r", "e", " ">>
S_batch_query == <<"b", "a", "t", "c", "h", " ">> \o S_query
S_copy_from == <<"c", "o", "p", "y", "_", "f", "r", "o", "m", " ">>
S_batch_start == <<"b", "a", "t", "c", "h", " ", "s", "t", "a", "r", "t">>
S_connect == <<"c", "o", "n", "n", "e", "c", "t">>
S_pool_acquire == <<"p", "o", "o", "l", ".", "a", "c", "q", "u", "i", "r", "e">>

sqlOperationUnknown == <<"U", "N", "K", "N", "O", "W", "N">>

pgxOperationQuery == "query"
pgxOperationCopy == "copy"
pgxOperationBatch == "batch"
pgxOperationConnect == "connect"
pgxOperationPrepare == "prepare"
pgxOperationAcquire == "acquire"

OperationKinds == {pgxOperationQuery, pgxOperationCopy, pgxOperationBatch,
                   pgxOperationConnect, pgxOperationPrepare, pgxOperationAcquire}

RowsAffectedKey == "pgx.rows_affected"
QueryParametersKey == "pgx.query.parameters"
PrepareStmtNameKey == "pgx.prepare_stmt.name"
SQLStateKey == "pgx.sql_state"
PGXOperationTypeKey == "pgx.operation.type"
DBClientOperationErrorsKey == "db.client.operation.errors"

\* semconv v1.27.0 keys used by the hooks
DBSystemPostgreSQL == <<"db.system", "postgresql">>

\* A string is the sequence of its characters.  A character that can be
\* written in a string of this module stands for itself; any other is
\* written by its code point: "U+000B" is the vertical tab, "U+00E9" the
\* letter e with acute accent, "U+0000" the NUL byte.

\* unicode.IsSpace, which strings.FieldsSeq, strings.TrimSpace and
\* strings.IndexFunc(s, unicode.IsSpace) decide by: the ASCII whitespace,
\* U+0085, U+00A0 and the characters of category Z
IsSpace(ch) ==
    ch \in
    {" ", "\t", "\n", "\r", "\f", "U+000B", "U+0085", "U+00A0", "U+1680",
     "U+2000", "U+2001", "U+2002", "U+2003", "U+2004", "U+2005", "U+2006",
     "U+2007", "U+2008", "U+2009", "U+200A", "U+2028", "U+2029", "U+202F",
     "U+205F", "U+3000"}

\* unicode.ToUpper beyond ASCII: every character with a simple upper-case
\* mapping in the Unicode character database (version 14; version 15 adds
\* none), with the character it maps to.  A character without one, like
\* U+00DF, is its own upper case.
UpperCase ==
    {<<"U+00B5", "U+039C">>, <<"U+00E0", "U+00C0">>, <<"U+00E1", "U+00C1">>,
     <<"U+00E2", "U+00C2">>, <<"U+00E3", "U+00C3">>, <<"U+00E4", "U+00C4">>,
     <<"U+00E5", "U+00C5">>, <<"U+00E6", "U+00C6">>, <<"U+00E7", "U+00C7">>,
     <<"U+00E8", "U+00C8">>, <<"U+00E9", "U+00C9">>, <<"U+00EA", "U+00CA">>,
     <<"U+00EB", "U+00CB">>, <<"U+00EC", "U+00CC">>, <<"U+00ED", "U+00CD">>,
     <<"U+00EE", "U+00CE">>, <<"U+00EF", "U+00CF">>, <<"U+00F0", "U+00D0">>,
     <<"U+00F1", "U+00D1">>, <<"U+00F2", "U+00D2">>, <<"U+00F3", "U+00D3">>,
     <<"U+00F4", "U+00D4">>, <<"U+00F5", "U+00D5">>, <<"U+00F6", "U+00D6">>,
     <<"U+00F8", "U+00D8">>, <<"U+00F9", "U+00D9">>, <<"U+00FA", "U+00DA">>,
     <<"U+00FB", "U+00DB">>, <<"U+00FC", "U+00DC">>, <<"U+00FD", "U+00DD">>,
     <<"U+00FE", "U+00DE">>, <<"U+00FF", "U+0178">>, <<"U+0101", "U+0100">>,
     <<"U+0103", "U+0102">>, <<"U+0105", "U+0104">>, <<"U+0107", "U+0106">>,
     <<"U+0109", "U+0108">>, <<"U+010B", "U+010A">>, <<"U+010D", "U+010C">>,
     <<"U+010F", "U+010E">>, <<"U+0111", "U+0110">>, <<"U+0113", "U+0112">>,
     <<"U+0115", "U+0114">>, <<"U+0117", "U+0116">>, <<"U+0119", "U+0118">>,
     <<"U+011B", "U+011A">>, <<"U+011D", "U+011C">>, <<"U+011F", "U+011E">>,
     <<"U+0121", "U+0120">>, <<"U+0123", "U+0122">>, <<"U+0125", "U+0124">>,
     <<"U+0127", "U+0126">>, <<"U+0129", "U+0128">>, <<"U+012B", "U+012A">>,
     <<"U+012D", "U+012C">>, <<"U+012F", "U+012E">>, <<"U+0131", "I">>,
     <<"U+0133", "U+0132">>, <<"U+0135", "U+0134">>, <<"U+0137", "U+0136">>,
     <<"U+013A", "U+0139">>, <<"U+013C", "U+013B">>, <<"U+013E", "U+013D">>,
     <<"U+0140", "U+013F">>, <<"U+0142", "U+0141">>, <<"U+0144", "U+0143">>,
     <<"U+0146", "U+0145">>, <<"U+0148", "U+0147">>, <<"U+014B", "U+014A">>,
     <<"U+014D", "U+014C">>, <<"U+014F", "U+014E">>, <<"U+0151", "U+0150">>,
     <<"U+0153", "U+0152">>, <<"U+0155", "U+0154">>, <<"U+0157", "U+0156">>,
     <<"U+0159", "U+0158">>, <<"U+015B", "U+015A">>, <<"U+015D", "U+015C">>,
     <<"U+015F", "U+015E">>, <<"U+0161", "U+0160">>, <<"U+0163", "U+0162">>,
     <<"U+0165", "U+0164">>, <<"U+0167", "U+0166">>, <<"U+0169", "U+0168">>,
     <<"U+016B", "U+016A">>, <<"U+016D", "U+016C">>, <<"U+016F", "U+016E">>,
     <<"U+0171", "U+0170">>, <<"U+0173", "U+0172">>, <<"U+0175", "U+0174">>,
     <<"U+0177", "U+0176">>, <<"U+017A", "U+0179">>, <<"U+017C", "U+017B">>,
     <<"U+017E", "U+017D">>, <<"U+017F", "S">>, <<"U+0180", "U+0243">>,
     <<"U+0183", "U+0182">>, <<"U+0185", "U+0184">>, <<"U+0188", "U+0187">>,
     <<"U+018C", "U+018B">>, <<"U+0192", "U+0191">>, <<"U+0195", "U+01F6">>,
     <<"U+0199", "U+0198">>, <<"U+019A", "U+023D">>, <<"U+019E", "U+0220">>,
     <<"U+01A1", "U+01A0">>, <<"U+01A3", "U+01A2">>, <<"U+01A5", "U+01A4">>,
     <<"U+01A8", "U+01A7">>, <<"U+01AD", "U+01AC">>, <<"U+01B0", "U+01AF">>,
     <<"U+01B4", "U+01B3">>, <<"U+01B6", "U+01B5">>, <<"U+01B9", "U+01B8">>,
     <<"U+01BD", "U+01BC">>, <<"U+01BF", "U+01F7">>, <<"U+01C5", "U+01C4">>,
     <<"U+01C6", "U+01C4">>, <<"U+01C8", "U+01C7">>, <<"U+01C9", "U+01C7">>,
     <<"U+01CB", "U+01CA">>, <<"U+01CC", "U+01CA">>, <<"U+01CE", "U+01CD">>,
     <<"U+01D0", "U+01CF">>, <<"U+01D2", "U+01D1">>, <<"U+01D4", "U+01D3">>,
     <<"U+01D6", "U+01D5">>, <<"U+01D8", "U+01D7">>, <<"U+01DA", "U+01D9">>,
     <<"U+01DC", "U+01DB">>, <<"U+01DD", "U+018E">>, <<"U+01DF", "U+01DE">>,
     <<"U+01E1", "U+01E0">>, <<"U+01E3", "U+01E2">>, <<"U+01E5", "U+01E4">>,
     <<"U+01E7", "U+01E6">>, <<"U+01E9", "U+01E8">>, <<"U+01EB", "U+01EA">>,
     <<"U+01ED", "U+01EC">>, <<"U+01EF", "U+01EE">>, <<"U+01F2", "U+01F1">>,
     <<"U+01F3", "U+01F1">>, <<"U+01F5", "U+01F4">>, <<"U+01F9", "U+01F8">>,
     <<"U+01FB", "U+01FA">>, <<"U+01FD", "U+01FC">>, <<"U+01FF", "U+01FE">>,
     <<"U+0201", "U+0200">>, <<"U+0203", "U+0202">>, <<"U+0205", "U+0204">>,
     <<"U+0207", "U+0206">>, <<"U+0209", "U+0208">>, <<"U+020B", "U+020A">>,
     <<"U+020D", "U+020C">>, <<"U+020F", "U+020E">>, <<"U+0211", "U+0210">>,
     <<"U+0213", "U+0212">>, <<"U+0215", "U+0214">>, <<"U+0217", "U+0216">>,
     <<"U+0219", "U+0218">>, <<"U+021B", "U+021A">>, <<"U+021D", "U+021C">>,
     <<"U+021F", "U+021E">>, <<"U+0223", "U+0222">>, <<"U+0225", "U+0224">>,
     <<"U+0227", "U+0226">>, <<"U+0229", "U+0228">>, <<"U+022B", "U+022A">>,
     <<"U+022D", "U+022C">>, <<"U+022F", "U+022E">>, <<"U+0231", "U+0230">>,
     <<"U+0233", "U+0232">>, <<"U+023C", "U+023B">>, <<"U+023F", "U+2C7E">>,
     <<"U+0240", "U+2C7F">>, <<"U+0242", "U+0241">>, <<"U+0247", "U+0246">>,
     <<"U+0249", "U+0248">>, <<"U+024B", "U+024A">>, <<"U+024D", "U+024C">>,
     <<"U+024F", "U+024E">>, <<"U+0250", "U+2C6F">>, <<"U+0251", "U+2C6D">>,
     <<"U+0252", "U+2C70">>, <<"U+0253", "U+0181">>, <<"U+0254", "U+0186">>,
     <<"U+0256", "U+0189">>, <<"U+0257", "U+018A">>, <<"U+0259", "U+018F">>,
     <<"U+025B", "U+0190">>, <<"U+025C", "U+A7AB">>, <<"U+0260", "U+0193">>,
     <<"U+0261", "U+A7AC">>, <<"U+0263", "U+0194">>, <<"U+0265", "U+A78D">>,
     <<"U+0266", "U+A7AA">>, <<"U+0268", "U+0197">>, <<"U+0269", "U+0196">>,
     <<"U+026A", "U+A7AE">>, <<"U+026B", "U+2C62">>, <<"U+026C", "U+A7AD">>,
     <<"U+026F", "U+019C">>, <<"U+0271", "U+2C6E">>, <<"U+0272", "U+019D">>,
     <<"U+0275", "U+019F">>, <<"U+027D", "U+2C64">>, <<"U+0280", "U+01A6">>,
     <<"U+0282", "U+A7C5">>, <<"U+0283", "U+01A9">>, <<"U+0287", "U+A7B1">>,
     <<"U+0288", "U+01AE">>, <<"U+0289", "U+0244">>, <<"U+028A", "U+01B1">>,
     <<"U+028B", "U+01B2">>, <<"U+028C", "U+0245">>, <<"U+0292", "U+01B7">>,
     <<"U+029D", "U+A7B2">>, <<"U+029E", "U+A7B0">>, <<"U+0345", "U+0399">>,
     <<"U+0371", "U+0370">>, <<"U+0373", "U+0372">>, <<"U+0377", "U+0376">>,
     <<"U+037B", "U+03FD">>, <<"U+037C", "U+03FE">>, <<"U+037D", "U+03FF">>,
     <<"U+03AC", "U+0386">>, <<"U+03AD", "U+0388">>, <<"U+03AE", "U+0389">>,
     <<"U+03AF", "U+038A">>, <<"U+03B1", "U+0391">>, <<"U+03B2", "U+0392">>,
     <<"U+03B3", "U+0393">>, <<"U+03B4", "U+0394">>, <<"U+03B5", "U+0395">>,
     <<"U+03B6", "U+0396">>, <<"U+03B7", "U+0397">>, <<"U+03B8", "U+0398">>,
     <<"U+03B9", "U+0399">>, <<"U+03BA", "U+039A">>, <<"U+03BB", "U+039B">>,
     <<"U+03BC", "U+039C">>, <<"U+03BD", "U+039D">>, <<"U+03BE", "U+039E">>,
     <<"U+03BF", "U+039F">>, <<"U+03C0", "U+03A0">>, <<"U+03C1", "U+03A1">>,
     <<"U+03C2", "U+03A3">>, <<"U+03C3", "U+03A3">>, <<"U+03C4", "U+03A4">>,
     <<"U+03C5", "U+03A5">>, <<"U+03C6", "U+03A6">>, <<"U+03C7", "U+03A7">>,
     <<"U+03C8", "U+03A8">>, <<"U+03C9", "U+03A9">>, <<"U+03CA", "U+03AA">>,
     <<"U+03CB", "U+03AB">>, <<"U+03CC", "U+038C">>, <<"U+03CD", "U+038E">>,
     <<"U+03CE", "U+038F">>, <<"U+03D0", "U+0392">>, <<"U+03D1", "U+0398">>,
     <<"U+03D5", "U+03A6">>, <<"U+03D6", "U+03A0">>, <<"U+03D7", "U+03CF">>,
     <<"U+03D9", "U+03D8">>, <<"U+03DB", "U+03DA">>, <<"U+03DD", "U+03DC">>,
     <<"U+03DF", "U+03DE">>, <<"U+03E1", "U+03E0">>, <<"U+03E3", "U+03E2">>,
     <<"U+03E5", "U+03E4">>, <<"U+03E7", "U+03E6">>, <<"U+03E9", "U+03E8">>,
     <<"U+03EB", "U+03EA">>, <<"U+03ED", "U+03EC">>, <<"U+03EF", "U+03EE">>,
     <<"U+03F0", "U+039A">>, <<"U+03F1", "U+03A1">>, <<"U+03F2", "U+03F9">>,
     <<"U+03F3", "U+037F">>, <<"U+03F5", "U+0395">>, <<"U+03F8", "U+03F7">>,
     <<"U+03FB", "U+03FA">>, <<"U+0430", "U+0410">>, <<"U+0431", "U+0411">>,
     <<"U+0432", "U+0412">>, <<"U+0433", "U+0413">>, <<"U+0434", "U+0414">>,
     <<"U+0435", "U+0415">>, <<"U+0436", "U+0416">>, <<"U+0437", "U+0417">>,
     <<"U+0438", "U+0418">>, <<"U+0439", "U+0419">>, <<"U+043A", "U+041A">>,
     <<"U+043B", "U+041B">>, <<"U+043C", "U+041C">>, <<"U+043D", "U+041D">>,
     <<"U+043E", "U+041E">>, <<"U+043F", "U+041F">>, <<"U+0440", "U+0420">>,
     <<"U+0441", "U+0421">>, <<"U+0442", "U+0422">>, <<"U+0443", "U+0423">>,
     <<"U+0444", "U+0424">>, <<"U+0445", "U+0425">>, <<"U+0446", "U+0426">>,
     <<"U+0447", "U+0427">>, <<"U+0448", "U+0428">>, <<"U+0449", "U+0429">>,
     <<"U+044A", "U+042A">>, <<"U+044B", "U+042B">>, <<"U+044C", "U+042C">>,
     <<"U+044D", "U+042D">>, <<"U+044E", "U+042E">>, <<"U+044F", "U+042F">>,
     <<"U+0450", "U+0400">>, <<"U+0451", "U+0401">>, <<"U+0452", "U+0402">>,
     <<"U+0453", "U+0403">>, <<"U+0454", "U+0404">>, <<"U+0455", "U+0405">>,
     <<"U+0456", "U+0406">>, <<"U+0457", "U+0407">>, <<"U+0458", "U+0408">>,
     <<"U+0459", "U+0409">>, <<"U+045A", "U+040A">>, <<"U+045B", "U+040B">>,
     <<"U+045C", "U+040C">>, <<"U+045D", "U+040D">>, <<"U+045E", "U+040E">>,
     <<"U+045F", "U+040F">>, <<"U+0461", "U+0460">>, <<"U+0463", "U+0462">>,
     <<"U+0465", "U+0464">>, <<"U+0467", "U+0466">>, <<"U+0469", "U+0468">>,
     <<"U+046B", "U+046A">>, <<"U+046D", "U+046C">>, <<"U+046F", "U+046E">>,
     <<"U+0471", "U+0470">>, <<"U+0473", "U+0472">>, <<"U+0475", "U+0474">>,
     <<"U+0477", "U+0476">>, <<"U+0479", "U+0478">>, <<"U+047B", "U+047A">>,
     <<"U+047D", "U+047C">>, <<"U+047F", "U+047E">>, <<"U+0481", "U+0480">>,
     <<"U+048B", "U+048A">>, <<"U+048D", "U+048C">>, <<"U+048F", "U+048E">>,
     <<"U+0491", "U+0490">>, <<"U+0493", "U+0492">>, <<"U+0495", "U+0494">>,
     <<"U+0497", "U+0496">>, <<"U+0499", "U+0498">>, <<"U+049B", "U+049A">>,
     <<"U+049D", "U+049C">>, <<"U+049F", "U+049E">>, <<"U+04A1", "U+04A0">>,
     <<"U+04A3", "U+04A2">>, <<"U+04A5", "U+04A4">>, <<"U+04A7", "U+04A6">>,
     <<"U+04A9", "U+04A8">>, <<"U+04AB", "U+04AA">>, <<"U+04AD", "U+04AC">>,
     <<"U+04AF", "U+04AE">>, <<"U+04B1", "U+04B0">>, <<"U+04B3", "U+04B2">>,
     <<"U+04B5", "U+04B4">>, <<"U+04B7", "U+04B6">>, <<"U+04B9", "U+04B8">>,
     <<"U+04BB", "U+04BA">>, <<"U+04BD", "U+04BC">>, <<"U+04BF", "U+04BE">>,
     <<"U+04C2", "U+04C1">>, <<"U+04C4", "U+04C3">>, <<"U+04C6", "U+04C5">>,
     <<"U+04C8", "U+04C7">>, <<"U+04CA", "U+04C9">>, <<"U+04CC", "U+04CB">>,
     <<"U+04CE", "U+04CD">>, <<"U+04CF", "U+04C0">>, <<"U+04D1", "U+04D0">>,
     <<"U+04D3", "U+04D2">>, <<"U+04D5", "U+04D4">>, <<"U+04D7", "U+04D6">>,
     <<"U+04D9", "U+04D8">>, <<"U+04DB", "U+04DA">>, <<"U+04DD", "U+04DC">>,
     <<"U+04DF", "U+04DE">>, <<"U+04E1", "U+04E0">>, <<"U+04E3", "U+04E2">>,
     <<"U+04E5", "U+04E4">>, <<"U+04E7", "U+04E6">>, <<"U+04E9", "U+04E8">>,
     <<"U+04EB", "U+04EA">>, <<"U+04ED", "U+04EC">>, <<"U+04EF", "U+04EE">>,
     <<"U+04F1", "U+04F0">>, <<"U+04F3", "U+04F2">>, <<"U+04F5", "U+04F4">>,
     <<"U+04F7", "U+04F6">>, <<"U+04F9", "U+04F8">>, <<"U+04FB", "U+04FA">>,
     <<"U+04FD", "U+04FC">>, <<"U+04FF", "U+04FE">>, <<"U+0501", "U+0500">>,
     <<"U+0503", "U+0502">>, <<"U+0505", "U+0504">>, <<"U+0507", "U+0506">>,
     <<"U+0509", "U+0508">>, <<"U+050B", "U+050A">>, <<"U+050D", "U+050C">>,
     <<"U+050F", "U+050E">>, <<"U+0511", "U+0510">>, <<"U+0513", "U+0512">>,
     <<"U+0515", "U+0514">>, <<"U+0517", "U+0516">>, <<"U+0519", "U+0518">>,
     <<"U+051B", "U+051A">>, <<"U+051D", "U+051C">>, <<"U+051F", "U+051E">>,
     <<"U+0521", "U+0520">>, <<"U+0523", "U+0522">>, <<"U+0525", "U+0524">>,
     <<"U+0527", "U+0526">>, <<"U+0529", "U+0528">>, <<"U+052B", "U+052A">>,
     <<"U+052D", "U+052C">>, <<"U+052F", "U+052E">>, <<"U+0561", "U+0531">>,
     <<"U+0562", "U+0532">>, <<"U+0563", "U+0533">>, <<"U+0564", "U+0534">>,
     <<"U+0565", "U+0535">>, <<"U+0566", "U+0536">>, <<"U+0567", "U+0537">>,
     <<"U+0568", "U+0538">>, <<"U+0569", "U+0539">>, <<"U+056A", "U+053A">>,
     <<"U+056B", "U+053B">>, <<"U+056C", "U+053C">>, <<"U+056D", "U+053D">>,
     <<"U+056E", "U+053E">>, <<"U+056F", "U+053F">>, <<"U+0570", "U+0540">>,
     <<"U+0571", "U+0541">>, <<"U+0572", "U+0542">>, <<"U+0573", "U+0543">>,
     <<"U+0574", "U+0544">>, <<"U+0575", "U+0545">>, <<"U+0576", "U+0546">>,
     <<"U+0577", "U+0547">>, <<"U+0578", "U+0548">>, <<"U+0579", "U+0549">>,
     <<"U+057A", "U+054A">>, <<"U+057B", "U+054B">>, <<"U+057C", "U+054C">>,
     <<"U+057D", "U+054D">>, <<"U+057E", "U+054E">>, <<"U+057F", "U+054F">>,
     <<"U+0580", "U+0550">>, <<"U+0581", "U+0551">>, <<"U+0582", "U+0552">>,
     <<"U+0583", "U+0553">>, <<"U+0584", "U+0554">>, <<"U+0585", "U+0555">>,
     <<"U+0586", "U+0556">>, <<"U+10D0", "U+1C90">>, <<"U+10D1", "U+1C91">>,
     <<"U+10D2", "U+1C92">>, <<"U+10D3", "U+1C93">>, <<"U+10D4", "U+1C94">>,
     <<"U+10D5", "U+1C95">>, <<"U+10D6", "U+1C96">>, <<"U+10D7", "U+1C97">>,
     <<"U+10D8", "U+1C98">>, <<"U+10D9", "U+1C99">>, <<"U+10DA", "U+1C9A">>,
     <<"U+10DB", "U+1C9B">>, <<"U+10DC", "U+1C9C">>, <<"U+10DD", "U+1C9D">>,
     <<"U+10DE", "U+1C9E">>, <<"U+10DF", "U+1C9F">>, <<"U+10E0", "U+1CA0">>,
     <<"U+10E1", "U+1CA1">>, <<"U+10E2", "U+1CA2">>, <<"U+10E3", "U+1CA3">>,
     <<"U+10E4", "U+1CA4">>, <<"U+10E5", "U+1CA5">>, <<"U+10E6", "U+1CA6">>,
     <<"U+10E7", "U+1CA7">>, <<"U+10E8", "U+1CA8">>, <<"U+10E9", "U+1CA9">>,
     <<"U+10EA", "U+1CAA">>, <<"U+10EB", "U+1CAB">>, <<"U+10EC", "U+1CAC">>,
     <<"U+10ED", "U+1CAD">>, <<"U+10EE", "U+1CAE">>, <<"U+10EF", "U+1CAF">>,
     <<"U+10F0", "U+1CB0">>, <<"U+10F1", "U+1CB1">>, <<"U+10F2", "U+1CB2">>,
     <<"U+10F3", "U+1CB3">>, <<"U+10F4", "U+1CB4">>, <<"U+10F5", "U+1CB5">>,
     <<"U+10F6", "U+1CB6">>, <<"U+10F7", "U+1CB7">>, <<"U+10F8", "U+1CB8">>,
     <<"U+10F9", "U+1CB9">>, <<"U+10FA", "U+1CBA">>, <<"U+10FD", "U+1CBD">>,
     <<"U+10FE", "U+1CBE">>, <<"U+10FF", "U+1CBF">>, <<"U+13F8", "U+13F0">>,
     <<"U+13F9", "U+13F1">>, <<"U+13FA", "U+13F2">>, <<"U+13FB", "U+13F3">>,
     <<"U+13FC", "U+13F4">>, <<"U+13FD", "U+13F5">>, <<"U+1C80", "U+0412">>,
     <<"U+1C81", "U+0414">>, <<"U+1C82", "U+041E">>, <<"U+1C83", "U+0421">>,
     <<"U+1C84", "U+0422">>, <<"U+1C85", "U+0422">>, <<"U+1C86", "U+042A">>,
     <<"U+1C87", "U+0462">>, <<"U+1C88", "U+A64A">>, <<"U+1D79", "U+A77D">>,
     <<"U+1D7D", "U+2C63">>, <<"U+1D8E", "U+A7C6">>, <<"U+1E01", "U+1E00">>,
     <<"U+1E03", "U+1E02">>, <<"U+1E05", "U+1E04">>, <<"U+1E07", "U+1E06">>,
     <<"U+1E09", "U+1E08">>, <<"U+1E0B", "U+1E0A">>, <<"U+1E0D", "U+1E0C">>,
     <<"U+1E0F", "U+1E0E">>, <<"U+1E11", "U+1E10">>, <<"U+1E13", "U+1E12">>,
     <<"U+1E15", "U+1E14">>, <<"U+1E17", "U+1E16">>, <<"U+1E19", "U+1E18">>,
     <<"U+1E1B", "U+1E1A">>, <<"U+1E1D", "U+1E1C">>, <<"U+1E1F", "U+1E1E">>,
     <<"U+1E21", "U+1E20">>, <<"U+1E23", "U+1E22">>, <<"U+1E25", "U+1E24">>,
     <<"U+1E27", "U+1E26">>, <<"U+1E29", "U+1E28">>, <<"U+1E2B", "U+1E2A">>,
     <<"U+1E2D", "U+1E2C">>, <<"U+1E2F", "U+1E2E">>, <<"U+1E31", "U+1E30">>,
     <<"U+1E33", "U+1E32">>, <<"U+1E35", "U+1E34">>, <<"U+1E37", "U+1E36">>,
     <<"U+1E39", "U+1E38">>, <<"U+1E3B", "U+1E3A">>, <<"U+1E3D", "U+1E3C">>,
     <<"U+1E3F", "U+1E3E">>, <<"U+1E41", "U+1E40">>, <<"U+1E43", "U+1E42">>,
     <<"U+1E45", "U+1E44">>, <<"U+1E47", "U+1E46">>, <<"U+1E49", "U+1E48">>,
     <<"U+1E4B", "U+1E4A">>, <<"U+1E4D", "U+1E4C">>, <<"U+1E4F", "U+1E4E">>,
     <<"U+1E51", "U+1E50">>, <<"U+1E53", "U+1E52">>, <<"U+1E55", "U+1E54">>,
     <<"U+1E57", "U+1E56">>, <<"U+1E59", "U+1E58">>, <<"U+1E5B", "U+1E5A">>,
     <<"U+1E5D", "U+1E5C">>, <<"U+1E5F", "U+1E5E">>, <<"U+1E61", "U+1E60">>,
     <<"U+1E63", "U+1E62">>, <<"U+1E65", "U+1E64">>, <<"U+1E67", "U+1E66">>,
     <<"U+1E69", "U+1E68">>, <<"U+1E6B", "U+1E6A">>, <<"U+1E6D", "U+1E6C">>,
     <<"U+1E6F", "U+1E6E">>, <<"U+1E71", "U+1E70">>, <<"U+1E73", "U+1E72">>,
     <<"U+1E75", "U+1E74">>, <<"U+1E77", "U+1E76">>, <<"U+1E79", "U+1E78">>,
     <<"U+1E7B", "U+1E7A">>, <<"U+1E7D", "U+1E7C">>, <<"U+1E7F", "U+1E7E">>,
     <<"U+1E81", "U+1E80">>, <<"U+1E83", "U+1E82">>, <<"U+1E85", "U+1E84">>,
     <<"U+1E87", "U+1E86">>, <<"U+1E89", "U+1E88">>, <<"U+1E8B", "U+1E8A">>,
     <<"U+1E8D", "U+1E8C">>, <<"U+1E8F", "U+1E8E">>, <<"U+1E91", "U+1E90">>,
     <<"U+1E93", "U+1E92">>, <<"U+1E95", "U+1E94">>, <<"U+1E9B", "U+1E60">>,
     <<"U+1EA1", "U+1EA0">>, <<"U+1EA3", "U+1EA2">>, <<"U+1EA5", "U+1EA4">>,
     <<"U+1EA7", "U+1EA6">>, <<"U+1EA9", "U+1EA8">>, <<"U+1EAB", "U+1EAA">>,
     <<"U+1EAD", "U+1EAC">>, <<"U+1EAF", "U+1EAE">>, <<"U+1EB1", "U+1EB0">>,
     <<"U+1EB3", "U+1EB2">>, <<"U+1EB5", "U+1EB4">>, <<"U+1EB7", "U+1EB6">>,
     <<"U+1EB9", "U+1EB8">>, <<"U+1EBB", "U+1EBA">>, <<"U+1EBD", "U+1EBC">>,
     <<"U+1EBF", "U+1EBE">>, <<"U+1EC1", "U+1EC0">>, <<"U+1EC3", "U+1EC2">>,
     <<"U+1EC5", "U+1EC4">>, <<"U+1EC7", "U+1EC6">>, <<"U+1EC9", "U+1EC8">>,
     <<"U+1ECB", "U+1ECA">>, <<"U+1ECD", "U+1ECC">>, <<"U+1ECF", "U+1ECE">>,
     <<"U+1ED1", "U+1ED0">>, <<"U+1ED3", "U+1ED2">>, <<"U+1ED5", "U+1ED4">>,
     <<"U+1ED7", "U+1ED6">>, <<"U+1ED9", "U+1ED8">>, <<"U+1EDB", "U+1EDA">>,
     <<"U+1EDD", "U+1EDC">>, <<"U+1EDF", "U+1EDE">>, <<"U+1EE1", "U+1EE0">>,
     <<"U+1EE3", "U+1EE2">>, <<"U+1EE5", "U+1EE4">>, <<"U+1EE7", "U+1EE6">>,
     <<"U+1EE9", "U+1EE8">>, <<"U+1EEB", "U+1EEA">>, <<"U+1EED", "U+1EEC">>,
     <<"U+1EEF", "U+1EEE">>, <<"U+1EF1", "U+1EF0">>, <<"U+1EF3", "U+1EF2">>,
     <<"U+1EF5", "U+1EF4">>, <<"U+1EF7", "U+1EF6">>, <<"U+1EF9", "U+1EF8">>,
     <<"U+1EFB", "U+1EFA">>, <<"U+1EFD", "U+1EFC">>, <<"U+1EFF", "U+1EFE">>,
     <<"U+1F00", "U+1F08">>, <<"U+1F01", "U+1F09">>, <<"U+1F02", "U+1F0A">>,
     <<"U+1F03", "U+1F0B">>, <<"U+1F04", "U+1F0C">>, <<"U+1F05", "U+1F0D">>,
     <<"U+1F06", "U+1F0E">>, <<"U+1F07", "U+1F0F">>, <<"U+1F10", "U+1F18">>,
     <<"U+1F11", "U+1F19">>, <<"U+1F12", "U+1F1A">>, <<"U+1F13", "U+1F1B">>,
     <<"U+1F14", "U+1F1C">>, <<"U+1F15", "U+1F1D">>, <<"U+1F20", "U+1F28">>,
     <<"U+1F21", "U+1F29">>, <<"U+1F22", "U+1F2A">>, <<"U+1F23", "U+1F2B">>,
     <<"U+1F24", "U+1F2C">>, <<"U+1F25", "U+1F2D">>, <<"U+1F26", "U+1F2E">>,
     <<"U+1F27", "U+1F2F">>, <<"U+1F30", "U+1F38">>, <<"U+1F31", "U+1F39">>,
     <<"U+1F32", "U+1F3A">>, <<"U+1F33", "U+1F3B">>, <<"U+1F34", "U+1F3C">>,
     <<"U+1F35", "U+1F3D">>, <<"U+1F36", "U+1F3E">>, <<"U+1F37", "U+1F3F">>,
     <<"U+1F40", "U+1F48">>, <<"U+1F41", "U+1F49">>, <<"U+1F42", "U+1F4A">>,
     <<"U+1F43", "U+1F4B">>, <<"U+1F44", "U+1F4C">>, <<"U+1F45", "U+1F4D">>,
     <<"U+1F51", "U+1F59">>, <<"U+1F53", "U+1F5B">>, <<"U+1F55", "U+1F5D">>,
     <<"U+1F57", "U+1F5F">>, <<"U+1F60", "U+1F68">>, <<"U+1F61", "U+1F69">>,
     <<"U+1F62", "U+1F6A">>, <<"U+1F63", "U+1F6B">>, <<"U+1F64", "U+1F6C">>,
     <<"U+1F65", "U+1F6D">>, <<"U+1F66", "U+1F6E">>, <<"U+1F67", "U+1F6F">>,
     <<"U+1F70", "U+1FBA">>, <<"U+1F71", "U+1FBB">>, <<"U+1F72", "U+1FC8">>,
     <<"U+1F73", "U+1FC9">>, <<"U+1F74", "U+1FCA">>, <<"U+1F75", "U+1FCB">>,
     <<"U+1F76", "U+1FDA">>, <<"U+1F77", "U+1FDB">>, <<"U+1F78", "U+1FF8">>,
     <<"U+1F79", "U+1FF9">>, <<"U+1F7A", "U+1FEA">>, <<"U+1F7B", "U+1FEB">>,
     <<"U+1F7C", "U+1FFA">>, <<"U+1F7D", "U+1FFB">>, <<"U+1F80", "U+1F88">>,
     <<"U+1F81", "U+1F89">>, <<"U+1F82", "U+1F8A">>, <<"U+1F83", "U+1F8B">>,
     <<"U+1F84", "U+1F8C">>, <<"U+1F85", "U+1F8D">>, <<"U+1F86", "U+1F8E">>,
     <<"U+1F87", "U+1F8F">>, <<"U+1F90", "U+1F98">>, <<"U+1F91", "U+1F99">>,
     <<"U+1F92", "U+1F9A">>, <<"U+1F93", "U+1F9B">>, <<"U+1F94", "U+1F9C">>,
     <<"U+1F95", "U+1F9D">>, <<"U+1F96", "U+1F9E">>, <<"U+1F97", "U+1F9F">>,
     <<"U+1FA0", "U+1FA8">>, <<"U+1FA1", "U+1FA9">>, <<"U+1FA2", "U+1FAA">>,
     <<"U+1FA3", "U+1FAB">>, <<"U+1FA4", "U+1FAC">>, <<"U+1FA5", "U+1FAD">>,
     <<"U+1FA6", "U+1FAE">>, <<"U+1FA7", "U+1FAF">>, <<"U+1FB0", "U+1FB8">>,
     <<"U+1FB1", "U+1FB9">>, <<"U+1FB3", "U+1FBC">>, <<"U+1FBE", "U+0399">>,
     <<"U+1FC3", "U+1FCC">>, <<"U+1FD0", "U+1FD8">>, <<"U+1FD1", "U+1FD9">>,
     <<"U+1FE0", "U+1FE8">>, <<"U+1FE1", "U+1FE9">>, <<"U+1FE5", "U+1FEC">>,
     <<"U+1FF3", "U+1FFC">>, <<"U+214E", "U+2132">>, <<"U+2170", "U+2160">>,
     <<"U+2171", "U+2161">>, <<"U+2172", "U+2162">>, <<"U+2173", "U+2163">>,
     <<"U+2174", "U+2164">>, <<"U+2175", "U+2165">>, <<"U+2176", "U+2166">>,
     <<"U+2177", "U+2167">>, <<"U+2178", "U+2168">>, <<"U+2179", "U+2169">>,
     <<"U+217A", "U+216A">>, <<"U+217B", "U+216B">>, <<"U+217C", "U+216C">>,
     <<"U+217D", "U+216D">>, <<"U+217E", "U+216E">>, <<"U+217F", "U+216F">>,
     <<"U+2184", "U+2183">>, <<"U+24D0", "U+24B6">>, <<"U+24D1", "U+24B7">>,
     <<"U+24D2", "U+24B8">>, <<"U+24D3", "U+24B9">>, <<"U+24D4", "U+24BA">>,
     <<"U+24D5", "U+24BB">>, <<"U+24D6", "U+24BC">>, <<"U+24D7", "U+24BD">>,
     <<"U+24D8", "U+24BE">>, <<"U+24D9", "U+24BF">>, <<"U+24DA", "U+24C0">>,
     <<"U+24DB", "U+24C1">>, <<"U+24DC", "U+24C2">>, <<"U+24DD", "U+24C3">>,
     <<"U+24DE", "U+24C4">>, <<"U+24DF", "U+24C5">>, <<"U+24E0", "U+24C6">>,
     <<"U+24E1", "U+24C7">>, <<"U+24E2", "U+24C8">>, <<"U+24E3", "U+24C9">>,
     <<"U+24E4", "U+24CA">>, <<"U+24E5", "U+24CB">>, <<"U+24E6", "U+24CC">>,
     <<"U+24E7", "U+24CD">>, <<"U+24E8", "U+24CE">>, <<"U+24E9", "U+24CF">>,
     <<"U+2C30", "U+2C00">>, <<"U+2C31", "U+2C01">>, <<"U+2C32", "U+2C02">>,
     <<"U+2C33", "U+2C03">>, <<"U+2C34", "U+2C04">>, <<"U+2C35", "U+2C05">>,
     <<"U+2C36", "U+2C06">>, <<"U+2C37", "U+2C07">>, <<"U+2C38", "U+2C08">>,
     <<"U+2C39", "U+2C09">>, <<"U+2C3A", "U+2C0A">>, <<"U+2C3B", "U+2C0B">>,
     <<"U+2C3C", "U+2C0C">>, <<"U+2C3D", "U+2C0D">>, <<"U+2C3E", "U+2C0E">>,
     <<"U+2C3F", "U+2C0F">>, <<"U+2C40", "U+2C10">>, <<"U+2C41", "U+2C11">>,
     <<"U+2C42", "U+2C12">>, <<"U+2C43", "U+2C13">>, <<"U+2C44", "U+2C14">>,
     <<"U+2C45", "U+2C15">>, <<"U+2C46", "U+2C16">>, <<"U+2C47", "U+2C17">>,
     <<"U+2C48", "U+2C18">>, <<"U+2C49", "U+2C19">>, <<"U+2C4A", "U+2C1A">>,
     <<"U+2C4B", "U+2C1B">>, <<"U+2C4C", "U+2C1C">>, <<"U+2C4D", "U+2C1D">>,
     <<"U+2C4E", "U+2C1E">>, <<"U+2C4F", "U+2C1F">>, <<"U+2C50", "U+2C20">>,
     <<"U+2C51", "U+2C21">>, <<"U+2C52", "U+2C22">>, <<"U+2C53", "U+2C23">>,
     <<"U+2C54", "U+2C24">>, <<"U+2C55", "U+2C25">>, <<"U+2C56", "U+2C26">>,
     <<"U+2C57", "U+2C27">>, <<"U+2C58", "U+2C28">>, <<"U+2C59", "U+2C29">>,
     <<"U+2C5A", "U+2C2A">>, <<"U+2C5B", "U+2C2B">>, <<"U+2C5C", "U+2C2C">>,
     <<"U+2C5D", "U+2C2D">>, <<"U+2C5E", "U+2C2E">>, <<"U+2C5F", "U+2C2F">>,
     <<"U+2C61", "U+2C60">>, <<"U+2C65", "U+023A">>, <<"U+2C66", "U+023E">>,
     <<"U+2C68", "U+2C67">>, <<"U+2C6A", "U+2C69">>, <<"U+2C6C", "U+2C6B">>,
     <<"U+2C73", "U+2C72">>, <<"U+2C76", "U+2C75">>, <<"U+2C81", "U+2C80">>,
     <<"U+2C83", "U+2C82">>, <<"U+2C85", "U+2C84">>, <<"U+2C87", "U+2C86">>,
     <<"U+2C89", "U+2C88">>, <<"U+2C8B", "U+2C8A">>, <<"U+2C8D", "U+2C8C">>,
     <<"U+2C8F", "U+2C8E">>, <<"U+2C91", "U+2C90">>, <<"U+2C93", "U+2C92">>,
     <<"U+2C95", "U+2C94">>, <<"U+2C97", "U+2C96">>, <<"U+2C99", "U+2C98">>,
     <<"U+2C9B", "U+2C9A">>, <<"U+2C9D", "U+2C9C">>, <<"U+2C9F", "U+2C9E">>,
     <<"U+2CA1", "U+2CA0">>, <<"U+2CA3", "U+2CA2">>, <<"U+2CA5", "U+2CA4">>,
     <<"U+2CA7", "U+2CA6">>, <<"U+2CA9", "U+2CA8">>, <<"U+2CAB", "U+2CAA">>,
     <<"U+2CAD", "U+2CAC">>, <<"U+2CAF", "U+2CAE">>, <<"U+2CB1", "U+2CB0">>,
     <<"U+2CB3", "U+2CB2">>, <<"U+2CB5", "U+2CB4">>, <<"U+2CB7", "U+2CB6">>,
     <<"U+2CB9", "U+2CB8">>, <<"U+2CBB", "U+2CBA">>, <<"U+2CBD", "U+2CBC">>,
     <<"U+2CBF", "U+2CBE">>, <<"U+2CC1", "U+2CC0">>, <<"U+2CC3", "U+2CC2">>,
     <<"U+2CC5", "U+2CC4">>, <<"U+2CC7", "U+2CC6">>, <<"U+2CC9", "U+2CC8">>,
     <<"U+2CCB", "U+2CCA">>, <<"U+2CCD", "U+2CCC">>, <<"U+2CCF", "U+2CCE">>,
     <<"U+2CD1", "U+2CD0">>, <<"U+2CD3", "U+2CD2">>, <<"U+2CD5", "U+2CD4">>,
     <<"U+2CD7", "U+2CD6">>, <<"U+2CD9", "U+2CD8">>, <<"U+2CDB", "U+2CDA">>,
     <<"U+2CDD", "U+2CDC">>, <<"U+2CDF", "U+2CDE">>, <<"U+2CE1", "U+2CE0">>,
     <<"U+2CE3", "U+2CE2">>, <<"U+2CEC", "U+2CEB">>, <<"U+2CEE", "U+2CED">>,
     <<"U+2CF3", "U+2CF2">>, <<"U+2D00", "U+10A0">>, <<"U+2D01", "U+10A1">>,
     <<"U+2D02", "U+10A2">>, <<"U+2D03", "U+10A3">>, <<"U+2D04", "U+10A4">>,
     <<"U+2D05", "U+10A5">>, <<"U+2D06", "U+10A6">>, <<"U+2D07", "U+10A7">>,
     <<"U+2D08", "U+10A8">>, <<"U+2D09", "U+10A9">>, <<"U+2D0A", "U+10AA">>,
     <<"U+2D0B", "U+10AB">>, <<"U+2D0C", "U+10AC">>, <<"U+2D0D", "U+10AD">>,
     <<"U+2D0E", "U+10AE">>, <<"U+2D0F", "U+10AF">>, <<"U+2D10", "U+10B0">>,
     <<"U+2D11", "U+10B1">>, <<"U+2D12", "U+10B2">>, <<"U+2D13", "U+10B3">>,
     <<"U+2D14", "U+10B4">>, <<"U+2D15", "U+10B5">>, <<"U+2D16", "U+10B6">>,
     <<"U+2D17", "U+10B7">>, <<"U+2D18", "U+10B8">>, <<"U+2D19", "U+10B9">>,
     <<"U+2D1A", "U+10BA">>, <<"U+2D1B", "U+10BB">>, <<"U+2D1C", "U+10BC">>,
     <<"U+2D1D", "U+10BD">>, <<"U+2D1E", "U+10BE">>, <<"U+2D1F", "U+10BF">>,
     <<"U+2D20", "U+10C0">>, <<"U+2D21", "U+10C1">>, <<"U+2D22", "U+10C2">>,
     <<"U+2D23", "U+10C3">>, <<"U+2D24", "U+10C4">>, <<"U+2D25", "U+10C5">>,
     <<"U+2D27", "U+10C7">>, <<"U+2D2D", "U+10CD">>, <<"U+A641", "U+A640">>,
     <<"U+A643", "U+A642">>, <<"U+A645", "U+A644">>, <<"U+A647", "U+A646">>,
     <<"U+A649", "U+A648">>, <<"U+A64B", "U+A64A">>, <<"U+A64D", "U+A64C">>,
     <<"U+A64F", "U+A64E">>, <<"U+A651", "U+A650">>, <<"U+A653", "U+A652">>,
     <<"U+A655", "U+A654">>, <<"U+A657", "U+A656">>, <<"U+A659", "U+A658">>,
     <<"U+A65B", "U+A65A">>, <<"U+A65D", "U+A65C">>, <<"U+A65F", "U+A65E">>,
     <<"U+A661", "U+A660">>, <<"U+A663", "U+A662">>, <<"U+A665", "U+A664">>,
     <<"U+A667", "U+A666">>, <<"U+A669", "U+A668">>, <<"U+A66B", "U+A66A">>,
     <<"U+A66D", "U+A66C">>, <<"U+A681", "U+A680">>, <<"U+A683", "U+A682">>,
     <<"U+A685", "U+A684">>, <<"U+A687", "U+A686">>, <<"U+A689", "U+A688">>,
     <<"U+A68B", "U+A68A">>, <<"U+A68D", "U+A68C">>, <<"U+A68F", "U+A68E">>,
     <<"U+A691", "U+A690">>, <<"U+A693", "U+A692">>, <<"U+A695", "U+A694">>,
     <<"U+A697", "U+A696">>, <<"U+A699", "U+A698">>, <<"U+A69B", "U+A69A">>,
     <<"U+A723", "U+A722">>, <<"U+A725", "U+A724">>, <<"U+A727", "U+A726">>,
     <<"U+A729", "U+A728">>, <<"U+A72B", "U+A72A">>, <<"U+A72D", "U+A72C">>,
     <<"U+A72F", "U+A72E">>, <<"U+A733", "U+A732">>, <<"U+A735", "U+A734">>,
     <<"U+A737", "U+A736">>, <<"U+A739", "U+A738">>, <<"U+A73B", "U+A73A">>,
     <<"U+A73D", "U+A73C">>, <<"U+A73F", "U+A73E">>, <<"U+A741", "U+A740">>,
     <<"U+A743", "U+A742">>, <<"U+A745", "U+A744">>, <<"U+A747", "U+A746">>,
     <<"U+A749", "U+A748">>, <<"U+A74B", "U+A74A">>, <<"U+A74D", "U+A74C">>,
     <<"U+A74F", "U+A74E">>, <<"U+A751", "U+A750">>, <<"U+A753", "U+A752">>,
     <<"U+A755", "U+A754">>, <<"U+A757", "U+A756">>, <<"U+A759", "U+A758">>,
     <<"U+A75B", "U+A75A">>, <<"U+A75D", "U+A75C">>, <<"U+A75F", "U+A75E">>,
     <<"U+A761", "U+A760">>, <<"U+A763", "U+A762">>, <<"U+A765", "U+A764">>,
     <<"U+A767", "U+A766">>, <<"U+A769", "U+A768">>, <<"U+A76B", "U+A76A">>,
     <<"U+A76D", "U+A76C">>, <<"U+A76F", "U+A76E">>, <<"U+A77A", "U+A779">>,
     <<"U+A77C", "U+A77B">>, <<"U+A77F", "U+A77E">>, <<"U+A781", "U+A780">>,
     <<"U+A783", "U+A782">>, <<"U+A785", "U+A784">>, <<"U+A787", "U+A786">>,
     <<"U+A78C", "U+A78B">>, <<"U+A791", "U+A790">>, <<"U+A793", "U+A792">>,
     <<"U+A794", "U+A7C4">>, <<"U+A797", "U+A796">>, <<"U+A799", "U+A798">>,
     <<"U+A79B", "U+A79A">>, <<"U+A79D", "U+A79C">>, <<"U+A79F", "U+A79E">>,
     <<"U+A7A1", "U+A7A0">>, <<"U+A7A3", "U+A7A2">>, <<"U+A7A5", "U+A7A4">>,
     <<"U+A7A7", "U+A7A6">>, <<"U+A7A9", "U+A7A8">>, <<"U+A7B5", "U+A7B4">>,
     <<"U+A7B7", "U+A7B6">>, <<"U+A7B9", "U+A7B8">>, <<"U+A7BB", "U+A7BA">>,
     <<"U+A7BD", "U+A7BC">>, <<"U+A7BF", "U+A7BE">>, <<"U+A7C1", "U+A7C0">>,
     <<"U+A7C3", "U+A7C2">>, <<"U+A7C8", "U+A7C7">>, <<"U+A7CA", "U+A7C9">>,
     <<"U+A7D1", "U+A7D0">>, <<"U+A7D7", "U+A7D6">>, <<"U+A7D9", "U+A7D8">>,
     <<"U+A7F6", "U+A7F5">>, <<"U+AB53", "U+A7B3">>, <<"U+AB70", "U+13A0">>,
     <<"U+AB71", "U+13A1">>, <<"U+AB72", "U+13A2">>, <<"U+AB73", "U+13A3">>,
     <<"U+AB74", "U+13A4">>, <<"U+AB75", "U+13A5">>, <<"U+AB76", "U+13A6">>,
     <<"U+AB77", "U+13A7">>, <<"U+AB78", "U+13A8">>, <<"U+AB79", "U+13A9">>,
     <<"U+AB7A", "U+13AA">>, <<"U+AB7B", "U+13AB">>, <<"U+AB7C", "U+13AC">>,
     <<"U+AB7D", "U+13AD">>, <<"U+AB7E", "U+13AE">>, <<"U+AB7F", "U+13AF">>,
     <<"U+AB80", "U+13B0">>, <<"U+AB81", "U+13B1">>, <<"U+AB82", "U+13B2">>,
     <<"U+AB83", "U+13B3">>, <<"U+AB84", "U+13B4">>, <<"U+AB85", "U+13B5">>,
     <<"U+AB86", "U+13B6">>, <<"U+AB87", "U+13B7">>, <<"U+AB88", "U+13B8">>,
     <<"U+AB89", "U+13B9">>, <<"U+AB8A", "U+13BA">>, <<"U+AB8B", "U+13BB">>,
     <<"U+AB8C", "U+13BC">>, <<"U+AB8D", "U+13BD">>, <<"U+AB8E", "U+13BE">>,
     <<"U+AB8F", "U+13BF">>, <<"U+AB90", "U+13C0">>, <<"U+AB91", "U+13C1">>,
     <<"U+AB92", "U+13C2">>, <<"U+AB93", "U+13C3">>, <<"U+AB94", "U+13C4">>,
     <<"U+AB95", "U+13C5">>, <<"U+AB96", "U+13C6">>, <<"U+AB97", "U+13C7">>,
     <<"U+AB98", "U+13C8">>, <<"U+AB99", "U+13C9">>, <<"U+AB9A", "U+13CA">>,
     <<"U+AB9B", "U+13CB">>, <<"U+AB9C", "U+13CC">>, <<"U+AB9D", "U+13CD">>,
     <<"U+AB9E", "U+13CE">>, <<"U+AB9F", "U+13CF">>, <<"U+ABA0", "U+13D0">>,
     <<"U+ABA1", "U+13D1">>, <<"U+ABA2", "U+13D2">>, <<"U+ABA3", "U+13D3">>,
     <<"U+ABA4", "U+13D4">>, <<"U+ABA5", "U+13D5">>, <<"U+ABA6", "U+13D6">>,
     <<"U+ABA7", "U+13D7">>, <<"U+ABA8", "U+13D8">>, <<"U+ABA9", "U+13D9">>,
     <<"U+ABAA", "U+13DA">>, <<"U+ABAB", "U+13DB">>, <<"U+ABAC", "U+13DC">>,
     <<"U+ABAD", "U+13DD">>, <<"U+ABAE", "U+13DE">>, <<"U+ABAF", "U+13DF">>,
     <<"U+ABB0", "U+13E0">>, <<"U+ABB1", "U+13E1">>, <<"U+ABB2", "U+13E2">>,
     <<"U+ABB3", "U+13E3">>, <<"U+ABB4", "U+13E4">>, <<"U+ABB5", "U+13E5">>,
     <<"U+ABB6", "U+13E6">>, <<"U+ABB7", "U+13E7">>, <<"U+ABB8", "U+13E8">>,
     <<"U+ABB9", "U+13E9">>, <<"U+ABBA", "U+13EA">>, <<"U+ABBB", "U+13EB">>,
     <<"U+ABBC", "U+13EC">>, <<"U+ABBD", "U+13ED">>, <<"U+ABBE", "U+13EE">>,
     <<"U+ABBF", "U+13EF">>, <<"U+FF41", "U+FF21">>, <<"U+FF42", "U+FF22">>,
     <<"U+FF43", "U+FF23">>, <<"U+FF44", "U+FF24">>, <<"U+FF45", "U+FF25">>,
     <<"U+FF46", "U+FF26">>, <<"U+FF47", "U+FF27">>, <<"U+FF48", "U+FF28">>,
     <<"U+FF49", "U+FF29">>, <<"U+FF4A", "U+FF2A">>, <<"U+FF4B", "U+FF2B">>,
     <<"U+FF4C", "U+FF2C">>, <<"U+FF4D", "U+FF2D">>, <<"U+FF4E", "U+FF2E">>,
     <<"U+FF4F", "U+FF2F">>, <<"U+FF50", "U+FF30">>, <<"U+FF51", "U+FF31">>,
     <<"U+FF52", "U+FF32">>, <<"U+FF53", "U+FF33">>, <<"U+FF54", "U+FF34">>,
     <<"U+FF55", "U+FF35">>, <<"U+FF56", "U+FF36">>, <<"U+FF57", "U+FF37">>,
     <<"U+FF58", "U+FF38">>, <<"U+FF59", "U+FF39">>, <<"U+FF5A", "U+FF3A">>,
     <<"U+10428", "U+10400">>, <<"U+10429", "U+10401">>,
     <<"U+1042A", "U+10402">>, <<"U+1042B", "U+10403">>,
     <<"U+1042C", "U+10404">>, <<"U+1042D", "U+10405">>,
     <<"U+1042E", "U+10406">>, <<"U+1042F", "U+10407">>,
     <<"U+10430", "U+10408">>, <<"U+10431", "U+10409">>,
     <<"U+10432", "U+1040A">>, <<"U+10433", "U+1040B">>,
     <<"U+10434", "U+1040C">>, <<"U+10435", "U+1040D">>,
     <<"U+10436", "U+1040E">>, <<"U+10437", "U+1040F">>,
     <<"U+10438", "U+10410">>, <<"U+10439", "U+10411">>,
     <<"U+1043A", "U+10412">>, <<"U+1043B", "U+10413">>,
     <<"U+1043C", "U+10414">>, <<"U+1043D", "U+10415">>,
     <<"U+1043E", "U+10416">>, <<"U+1043F", "U+10417">>,
     <<"U+10440", "U+10418">>, <<"U+10441", "U+10419">>,
     <<"U+10442", "U+1041A">>, <<"U+10443", "U+1041B">>,
     <<"U+10444", "U+1041C">>, <<"U+10445", "U+1041D">>,
     <<"U+10446", "U+1041E">>, <<"U+10447", "U+1041F">>,
     <<"U+10448", "U+10420">>, <<"U+10449", "U+10421">>,
     <<"U+1044A", "U+10422">>, <<"U+1044B", "U+10423">>,
     <<"U+1044C", "U+10424">>, <<"U+1044D", "U+10425">>,
     <<"U+1044E", "U+10426">>, <<"U+1044F", "U+10427">>,
     <<"U+104D8", "U+104B0">>, <<"U+104D9", "U+104B1">>,
     <<"U+104DA", "U+104B2">>, <<"U+104DB", "U+104B3">>,
     <<"U+104DC", "U+104B4">>, <<"U+104DD", "U+104B5">>,
     <<"U+104DE", "U+104B6">>, <<"U+104DF", "U+104B7">>,
     <<"U+104E0", "U+104B8">>, <<"U+104E1", "U+104B9">>,
     <<"U+104E2", "U+104BA">>, <<"U+104E3", "U+104BB">>,
     <<"U+104E4", "U+104BC">>, <<"U+104E5", "U+104BD">>,
     <<"U+104E6", "U+104BE">>, <<"U+104E7", "U+104BF">>,
     <<"U+104E8", "U+104C0">>, <<"U+104E9", "U+104C1">>,
     <<"U+104EA", "U+104C2">>, <<"U+104EB", "U+104C3">>,
     <<"U+104EC", "U+104C4">>, <<"U+104ED", "U+104C5">>,
     <<"U+104EE", "U+104C6">>, <<"U+104EF", "U+104C7">>,
     <<"U+104F0", "U+104C8">>, <<"U+104F1", "U+104C9">>,
     <<"U+104F2", "U+104CA">>, <<"U+104F3", "U+104CB">>,
     <<"U+104F4", "U+104CC">>, <<"U+104F5", "U+104CD">>,
     <<"U+104F6", "U+104CE">>, <<"U+104F7", "U+104CF">>,
     <<"U+104F8", "U+104D0">>, <<"U+104F9", "U+104D1">>,
     <<"U+104FA", "U+104D2">>, <<"U+104FB", "U+104D3">>,
     <<"U+10597", "U+10570">>, <<"U+10598", "U+10571">>,
     <<"U+10599", "U+10572">>, <<"U+1059A", "U+10573">>,
     <<"U+1059B", "U+10574">>, <<"U+1059C", "U+10575">>,
     <<"U+1059D", "U+10576">>, <<"U+1059E", "U+10577">>,
     <<"U+1059F", "U+10578">>, <<"U+105A0", "U+10579">>,
     <<"U+105A1", "U+1057A">>, <<"U+105A3", "U+1057C">>,
     <<"U+105A4", "U+1057D">>, <<"U+105A5", "U+1057E">>,
     <<"U+105A6", "U+1057F">>, <<"U+105A7", "U+10580">>,
     <<"U+105A8", "U+10581">>, <<"U+105A9", "U+10582">>,
     <<"U+105AA", "U+10583">>, <<"U+105AB", "U+10584">>,
     <<"U+105AC", "U+10585">>, <<"U+105AD", "U+10586">>,
     <<"U+105AE", "U+10587">>, <<"U+105AF", "U+10588">>,
     <<"U+105B0", "U+10589">>, <<"U+105B1", "U+1058A">>,
     <<"U+105B3", "U+1058C">>, <<"U+105B4", "U+1058D">>,
     <<"U+105B5", "U+1058E">>, <<"U+105B6", "U+1058F">>,
     <<"U+105B7", "U+10590">>, <<"U+105B8", "U+10591">>,
     <<"U+105B9", "U+10592">>, <<"U+105BB", "U+10594">>,
     <<"U+105BC", "U+10595">>, <<"U+10CC0", "U+10C80">>,
     <<"U+10CC1", "U+10C81">>, <<"U+10CC2", "U+10C82">>,
     <<"U+10CC3", "U+10C83">>, <<"U+10CC4", "U+10C84">>,
     <<"U+10CC5", "U+10C85">>, <<"U+10CC6", "U+10C86">>,
     <<"U+10CC7", "U+10C87">>, <<"U+10CC8", "U+10C88">>,
     <<"U+10CC9", "U+10C89">>, <<"U+10CCA", "U+10C8A">>,
     <<"U+10CCB", "U+10C8B">>, <<"U+10CCC", "U+10C8C">>,
     <<"U+10CCD", "U+10C8D">>, <<"U+10CCE", "U+10C8E">>,
     <<"U+10CCF", "U+10C8F">>, <<"U+10CD0", "U+10C90">>,
     <<"U+10CD1", "U+10C91">>, <<"U+10CD2", "U+10C92">>,
     <<"U+10CD3", "U+10C93">>, <<"U+10CD4", "U+10C94">>,
     <<"U+10CD5", "U+10C95">>, <<"U+10CD6", "U+10C96">>,
     <<"U+10CD7", "U+10C97">>, <<"U+10CD8", "U+10C98">>,
     <<"U+10CD9", "U+10C99">>, <<"U+10CDA", "U+10C9A">>,
     <<"U+10CDB", "U+10C9B">>, <<"U+10CDC", "U+10C9C">>,
     <<"U+10CDD", "U+10C9D">>, <<"U+10CDE", "U+10C9E">>,
     <<"U+10CDF", "U+10C9F">>, <<"U+10CE0", "U+10CA0">>,
     <<"U+10CE1", "U+10CA1">>, <<"U+10CE2", "U+10CA2">>,
     <<"U+10CE3", "U+10CA3">>, <<"U+10CE4", "U+10CA4">>,
     <<"U+10CE5", "U+10CA5">>, <<"U+10CE6", "U+10CA6">>,
     <<"U+10CE7", "U+10CA7">>, <<"U+10CE8", "U+10CA8">>,
     <<"U+10CE9", "U+10CA9">>, <<"U+10CEA", "U+10CAA">>,
     <<"U+10CEB", "U+10CAB">>, <<"U+10CEC", "U+10CAC">>,
     <<"U+10CED", "U+10CAD">>, <<"U+10CEE", "U+10CAE">>,
     <<"U+10CEF", "U+10CAF">>, <<"U+10CF0", "U+10CB0">>,
     <<"U+10CF1", "U+10CB1">>, <<"U+10CF2", "U+10CB2">>,
     <<"U+118C0", "U+118A0">>, <<"U+118C1", "U+118A1">>,
     <<"U+118C2", "U+118A2">>, <<"U+118C3", "U+118A3">>,
     <<"U+118C4", "U+118A4">>, <<"U+118C5", "U+118A5">>,
     <<"U+118C6", "U+118A6">>, <<"U+118C7", "U+118A7">>,
     <<"U+118C8", "U+118A8">>, <<"U+118C9", "U+118A9">>,
     <<"U+118CA", "U+118AA">>, <<"U+118CB", "U+118AB">>,
     <<"U+118CC", "U+118AC">>, <<"U+118CD", "U+118AD">>,
     <<"U+118CE", "U+118AE">>, <<"U+118CF", "U+118AF">>,
     <<"U+118D0", "U+118B0">>, <<"U+118D1", "U+118B1">>,
     <<"U+118D2", "U+118B2">>, <<"U+118D3", "U+118B3">>,
     <<"U+118D4", "U+118B4">>, <<"U+118D5", "U+118B5">>,
     <<"U+118D6", "U+118B6">>, <<"U+118D7", "U+118B7">>,
     <<"U+118D8", "U+118B8">>, <<"U+118D9", "U+118B9">>,
     <<"U+118DA", "U+118BA">>, <<"U+118DB", "U+118BB">>,
     <<"U+118DC", "U+118BC">>, <<"U+118DD", "U+118BD">>,
     <<"U+118DE", "U+118BE">>, <<"U+118DF", "U+118BF">>,
     <<"U+16E60", "U+16E40">>, <<"U+16E61", "U+16E41">>,
     <<"U+16E62", "U+16E42">>, <<"U+16E63", "U+16E43">>,
     <<"U+16E64", "U+16E44">>, <<"U+16E65", "U+16E45">>,
     <<"U+16E66", "U+16E46">>, <<"U+16E67", "U+16E47">>,
     <<"U+16E68", "U+16E48">>, <<"U+16E69", "U+16E49">>,
     <<"U+16E6A", "U+16E4A">>, <<"U+16E6B", "U+16E4B">>,
     <<"U+16E6C", "U+16E4C">>, <<"U+16E6D", "U+16E4D">>,
     <<"U+16E6E", "U+16E4E">>, <<"U+16E6F", "U+16E4F">>,
     <<"U+16E70", "U+16E50">>, <<"U+16E71", "U+16E51">>,
     <<"U+16E72", "U+16E52">>, <<"U+16E73", "U+16E53">>,
     <<"U+16E74", "U+16E54">>, <<"U+16E75", "U+16E55">>,
     <<"U+16E76", "U+16E56">>, <<"U+16E77", "U+16E57">>,
     <<"U+16E78", "U+16E58">>, <<"U+16E79", "U+16E59">>,
     <<"U+16E7A", "U+16E5A">>, <<"U+16E7B", "U+16E5B">>,
     <<"U+16E7C", "U+16E5C">>, <<"U+16E7D", "U+16E5D">>,
     <<"U+16E7E", "U+16E5E">>, <<"U+16E7F", "U+16E5F">>,
     <<"U+1E922", "U+1E900">>, <<"U+1E923", "U+1E901">>,
     <<"U+1E924", "U+1E902">>, <<"U+1E925", "U+1E903">>,
     <<"U+1E926", "U+1E904">>, <<"U+1E927", "U+1E905">>,
     <<"U+1E928", "U+1E906">>, <<"U+1E929", "U+1E907">>,
     <<"U+1E92A", "U+1E908">>, <<"U+1E92B", "U+1E909">>,
     <<"U+1E92C", "U+1E90A">>, <<"U+1E92D", "U+1E90B">>,
     <<"U+1E92E", "U+1E90C">>, <<"U+1E92F", "U+1E90D">>,
     <<"U+1E930", "U+1E90E">>, <<"U+1E931", "U+1E90F">>,
     <<"U+1E932", "U+1E910">>, <<"U+1E933", "U+1E911">>,
     <<"U+1E934", "U+1E912">>, <<"U+1E935", "U+1E913">>,
     <<"U+1E936", "U+1E914">>, <<"U+1E937", "U+1E915">>,
     <<"U+1E938", "U+1E916">>, <<"U+1E939", "U+1E917">>,
     <<"U+1E93A", "U+1E918">>, <<"U+1E93B", "U+1E919">>,
     <<"U+1E93C", "U+1E91A">>, <<"U+1E93D", "U+1E91B">>,
     <<"U+1E93E", "U+1E91C">>, <<"U+1E93F", "U+1E91D">>,
     <<"U+1E940", "U+1E91E">>, <<"U+1E941", "U+1E91F">>,
     <<"U+1E942", "U+1E920">>, <<"U+1E943", "U+1E921">>}

\* unicode.ToUpper, as strings.ToUpper applies it to every character
ToUpperChar(ch) ==
    CASE ch = "a" -> "A" [] ch = "b" -> "B" [] ch = "c" -> "C" [] ch = "d" -> "D"
      [] ch = "e" -> "E" [] ch = "f" -> "F" [] ch = "g" -> "G" [] ch = "h" -> "H"
      [] ch = "i" -> "I" [] ch = "j" -> "J" [] ch = "k" -> "K" [] ch = "l" -> "L"
      [] ch = "m" -> "M" [] ch = "n" -> "N" [] ch = "o" -> "O" [] ch = "p" -> "P"
      [] ch = "q" -> "Q" [] ch = "r" -> "R" [] ch = "s" -> "S" [] ch = "t" -> "T"
      [] ch = "u" -> "U" [] ch = "v" -> "V" [] ch = "w" -> "W" [] ch = "x" -> "X"
      [] ch = "y" -> "Y" [] ch = "z" -> "Z"
      [] \E pair \in UpperCase : pair[1] = ch ->
            (CHOOSE pair \in UpperCase : pair[1] = ch)[2]
      [] OTHER -> ch

ToUpper(s) == [i \in 1..Len(s) |-> ToUpperChar(s[i])]

\* strings.Fields / strings.FieldsSeq: the first whitespace-delimited field
\* of s, or <<>> when s holds none.
RECURSIVE SkipSpace(_)
SkipSpace(s) ==
    IF s = <<>> THEN <<>>
    ELSE IF IsSpace(Head(s)) THEN SkipSpace(Tail(s)) ELSE s

RECURSIVE TakeWord(_)
TakeWord(s) ==
    IF s = <<>> THEN <<>>
    ELSE IF IsSpace(Head(s)) THEN <<>> ELSE <<Head(s)>> \o TakeWord(Tail(s))

FirstField(s) == TakeWord(SkipSpace(s))

\* The default naming policy, as a bug would have it: no sentinel, a
\* statement without a word gives the empty name
sqlOperationNameNoSentinel(stmt) == ToUpper(FirstField(stmt))

\* The default naming policy: the first field upper-cased, or UNKNOWN.
sqlOperationName(stmt) ==
    IF FirstField(stmt) = <<>> THEN sqlOperationUnknown
    ELSE ToUpper(FirstField(stmt))

\* strings.Split(s, sep), sep a single character: the pieces between the
\* separators, empty pieces included
RECURSIVE Split(_, _)
Split(s, sep) ==
    IF \A i \in 1..Len(s) : s[i] # sep THEN <<s>>
    ELSE LET k == CHOOSE i \in 1..Len(s) : s[i] = sep /\ \A j \in 1..(i - 1) : s[j] # sep
         IN  <<SubSeq(s, 1, k - 1)>> \o Split(SubSeq(s, k + 1, Len(s)), sep)

\* strings.HasPrefix, strings.Contains, strings.TrimSpace
HasPrefix(s, prefix) == Len(s) >= Len(prefix) /\ SubSeq(s, 1, Len(prefix)) = prefix

Contains(s, ch) == \E i \in 1..Len(s) : s[i] = ch

RECURSIVE TrimRight(_)
TrimRight(s) ==
    IF s = <<>> THEN <<>>
    ELSE IF IsSpace(s[Len(s)]) THEN TrimRight(SubSeq(s, 1, Len(s) - 1)) ELSE s

TrimSpace(s) == TrimRight(SkipSpace(s))

\* What a call of a naming policy comes to: the name it returns, or a panic.
Returned(name) == [panic |-> FALSE, name |-> name]
Panicked == [panic |-> TRUE, name |-> <<>>]

\* The comment markers of the annotation-aware policy; none stands for a
\* line that starts with no marker
Marker ==
    [dash |-> <<"-", "-">>,
     slashStar |-> <<"/", "*">>,
     hash |-> <<"#">>,
     none |-> <<>>]

\* The switch over the markers, as a bug would have it: the hash marker is
\* not among them
LinePrefixNoHash(line) ==
    IF HasPrefix(line, Marker.dash) THEN Marker.dash
    ELSE IF HasPrefix(line, Marker.slashStar) THEN Marker.slashStar
    ELSE Marker.none

\* the switch over strings.HasPrefix(line, ...)
LinePrefix(line) ==
    IF HasPrefix(line, Marker.dash) THEN Marker.dash
    ELSE IF HasPrefix(line, Marker.slashStar) THEN Marker.slashStar
    ELSE IF HasPrefix(line, Marker.hash) THEN Marker.hash
    ELSE Marker.none

\* One pass of the loop of the annotation-aware policy, over one line of
\* the query: the loop goes on to the next line (continue), or the policy
\* returns (out).  part[2] and part[3] of the source are part[3] and
\* part[4] here; reading them past the end of part is an index out of range.
ScanLine(line) ==
    LET prefix == LinePrefix(line)
        rest == SubSeq(line, Len(prefix) + 1, Len(line))
        split == Split(TrimSpace(line), " ")
        part == IF prefix = Marker.slashStar
                THEN SubSeq(split, 1, Len(split) - 1) ELSE split
        Continue == [continue |-> TRUE, out |-> Returned(<<>>)]
        Return(r) == [continue |-> FALSE, out |-> r]
    IN  IF prefix = Marker.none THEN Continue
        ELSE IF ~HasPrefix(TrimSpace(rest), <<"n", "a", "m", "e">>) THEN Continue
        ELSE IF ~Contains(rest, ":") THEN Continue
        ELSE IF ~HasPrefix(rest, <<" ", "n", "a", "m", "e", ":", " ">>)
             THEN Return(Returned(sqlOperationUnknown))
        ELSE IF Len(part) = 2 THEN Return(Returned(sqlOperationUnknown))
        ELSE IF Len(part) < 4 THEN Return(Panicked)
        ELSE Return(Returned(part[3] \o <<" ">> \o TrimSpace(part[4])))

\* The loop of the annotation-aware policy over the lines of the query, and
\* the return after it.
RECURSIVE ScanLines(_)
ScanLines(lines) ==
    IF lines = <<>> THEN Returned(sqlOperationUnknown)
    ELSE IF ScanLine(Head(lines)).continue THEN ScanLines(Tail(lines))
    ELSE ScanLine(Head(lines)).out

\* The annotation-aware naming policy, as a bug would have it: without an
\* annotation the statement's first word is the name
defaultSpanNameFuncKeywordFallback(query) ==
    LET r == ScanLines(Split(query, "\n"))
    IN  IF ~r.panic /\ r.name = sqlOperationUnknown
        THEN Returned(sqlOperationName(query)) ELSE r

\* The annotation-aware naming policy.
defaultSpanNameFunc(query) == ScanLines(Split(query, "\n"))

\* The values of Tracer.spanNameFunc.  With no function configured
\* Tracer.sqlOperationName names a statement itself, by its first word
\* upper-cased; WithSpanNameFunc(defaultSpanNameFunc) puts the
\* annotation-aware function in its place.
DefaultPolicy == "default"
AnnotationPolicy == "annotation-aware"

\* Tracer.sqlOperationName: the custom function when there is one, the first
\* word otherwise
TracerSqlOperationName(t, stmt) ==
    IF t.spanNameFunc = AnnotationPolicy THEN defaultSpanNameFunc(stmt)
    ELSE Returned(sqlOperationName(stmt))

\* strings.IndexFunc(s, unicode.IsSpace): the offset of the first whitespace
\* character of s, counted from 0, or -1 when s holds none
IndexFunc(s) ==
    IF \A i \in 1..Len(s) : ~IsSpace(s[i]) THEN 0 - 1
    ELSE (CHOOSE i \in 1..Len(s) : IsSpace(s[i]) /\ \A j \in 1..(i - 1) : ~IsSpace(s[j])) - 1

\* The default naming policy of the builds before Go 1.24, as a bug would
\* have it: the statement is searched as it came, leading whitespace
\* included
defaultSpanNameCtxFuncUntrimmed(stmt) ==
    LET end == IndexFunc(stmt)
    IN  IF end < 0 /\ Len(stmt) > 0 THEN ToUpper(stmt)
        ELSE IF end < 0 THEN sqlOperationUnknown
        ELSE ToUpper(SubSeq(stmt, 1, end))

\* The default naming policy of the builds before Go 1.24: the statement is
\* trimmed and cut at its first whitespace character
defaultSpanNameCtxFunc(stmt) ==
    LET trimmed == TrimSpace(stmt)
        end == IndexFunc(trimmed)
    IN  IF end < 0 /\ Len(trimmed) > 0 THEN ToUpper(SubSeq(trimmed, 1, Len(trimmed)))
        ELSE IF end < 0 THEN sqlOperationUnknown
        ELSE ToUpper(SubSeq(trimmed, 1, end))

\* Tracer.sqlOperationName of the builds before Go 1.24: the custom function
\* when there is one, the trimmed statement up to its first whitespace
\* otherwise
sqlOperationNamePre124(t, stmt) ==
    IF t.spanNameFunc = AnnotationPolicy THEN defaultSpanNameFunc(stmt)
    ELSE Returned(defaultSpanNameCtxFunc(stmt))

---------------------------------------------------------------------------
(* Errors.  A Go error is the chain errors.Is and errors.As walk through   *)
(* Unwrap, outermost layer first; the nil error is the empty chain.        *)

NilErr == <<>>

ErrLayer(type, msg, code) == [type |-> type, msg |-> msg, code |-> code]

\* database/sql.ErrNoRows
sqlErrNoRows == <<ErrLayer("sql.ErrNoRows", "sql: no rows in result set", "")>>

\* pgx.ErrNoRows, which unwraps to sql.ErrNoRows
pgxErrNoRows == <<ErrLayer("pgx.proxyError", "no rows in result set", "")>> \o sqlErrNoRows

\* context.Canceled, as the driver returns it for a canceled call
ctxCanceled == <<ErrLayer("context.Canceled", "context canceled", "")>>

\* *pgconn.PgError with SQLSTATE 23505
pgError == <<ErrLayer("pgconn.PgError", "ERROR: duplicate key (SQLSTATE 23505)", "23505")>>

\* fmt.Errorf("exec: %w", pgError)
wrappedPgError == <<ErrLayer("fmt.wrapError", "exec: ERROR: duplicate key (SQLSTATE 23505)", "")>> \o pgError

DriverErrors == {NilErr, sqlErrNoRows, pgxErrNoRows, ctxCanceled, pgError,
                 wrappedPgError}

\* The errors the driver reports for the statements of a batch.
ItemErrors == {NilErr, sqlErrNoRows, ctxCanceled, pgError}

\* errors.Is(err, target) for a sentinel target
ErrorsIs(err, targetType) == \E i \in 1..Len(err) : err[i].type = targetType

\* errors.As(err, &pgErr): the first *pgconn.PgError of the chain
ErrorsAsPgError(err) == \E i \in 1..Len(err) : err[i].type = "pgconn.PgError"

PgErrorCode(err) ==
    LET i == CHOOSE j \in 1..Len(err) :
                 /\ err[j].type = "pgconn.PgError"
                 /\ \A k \in 1..(j - 1) : err[k].type # "pgconn.PgError"
    IN  err[i].code

\* err.Error()
ErrorMessage(err) == err[1].msg


---------------------------------------------------------------------------
(* context.Context.  The hooks read two keys of a context: the span the    *)
(* tracing backend bound to it and the value under startTimeCtxKey{}.  req *)
(* stands for the values the caller put there, which tell one call's       *)
(* context from another's.                                                 *)

NoSpan == 0

CallerContext(req, ambient) ==
    [req |-> req, span |-> ambient, hasStart |-> FALSE, startTime |-> 0]

\* context.WithValue(ctx, startTimeCtxKey{}, t)
WithStartTime(ctx, t) == [ctx EXCEPT !.hasStart = TRUE, !.startTime = t]

\* trace.ContextWithSpan(ctx, span), as tracer.Start returns it
ContextWithSpan(ctx, s) == [ctx EXCEPT !.span = s]

\* trace.SpanFromContext(ctx): the bound span, or the no-op span
SpanFromContext(ctx) == ctx.span

---------------------------------------------------------------------------
(* The tracing backend.  A span that is not recording, and the no-op span  *)
(* NoSpan of a context without a span, ignore every call.                  *)

AmbientRecording == 1
AmbientNotRecording == 2

AmbientSpan(recording) ==
    [name |-> <<>>, parent |-> NoSpan, kind |-> "internal", recording |-> recording,
     attrs |-> <<>>, status |-> [code |-> "Unset", msg |-> ""], events |-> <<>>,
     ended |-> FALSE, endCalls |-> 0, byCall |-> 0, byHook |-> "caller"]

AmbientSpans == <<AmbientSpan(TRUE), AmbientSpan(FALSE)>>

AmbientChoices == {NoSpan, AmbientRecording, AmbientNotRecording}

\* span.IsRecording(), as a bug would have it: every span of a context counts
\* as recording
IsRecordingAnySpan(sp, s) == s # NoSpan

\* span.IsRecording()
IsRecording(sp, s) == s # NoSpan /\ sp[s].recording /\ ~sp[s].ended

\* attribute.KeyValue lists: SetAttributes replaces a key already present
RECURSIVE SetAttr(_, _)
SetAttr(attrs, kv) ==
    IF attrs = <<>> THEN <<kv>>
    ELSE IF Head(attrs)[1] = kv[1] THEN <<kv>> \o Tail(attrs)
    ELSE <<Head(attrs)>> \o SetAttr(Tail(attrs), kv)

RECURSIVE SetAttrs(_, _)
SetAttrs(attrs, kvs) ==
    IF kvs = <<>> THEN attrs ELSE SetAttrs(SetAttr(attrs, Head(kvs)), Tail(kvs))

SpanSetAttributes(sp, s, kvs) ==
    IF IsRecording(sp, s)
    THEN [sp EXCEPT ![s].attrs = SetAttrs(@, kvs)]
    ELSE sp

SpanRecordError(sp, s, err) ==
    IF IsRecording(sp, s) /\ err # NilErr
    THEN [sp EXCEPT ![s].events = Append(@, ErrorMessage(err))]
    ELSE sp

\* span.SetStatus(code, msg)
SpanSetStatus(sp, s, code, msg) ==
    IF IsRecording(sp, s)
    THEN [sp EXCEPT ![s].status = [code |-> code, msg |-> msg]]
    ELSE sp

\* span.End(), as a bug would have it: the span is left open
SpanEndLeavesOpen(sp, s) == sp

\* span.End()
SpanEnd(sp, s) ==
    IF s = NoSpan THEN sp
    ELSE [sp EXCEPT ![s].endCalls = @ + 1,
                    ![s].ended = @ \/ sp[s].recording]

\* tracer.Start(ctx, name, WithSpanKind(kind), WithAttributes(attrs...)): a
\* child of ctx's span.  The hooks start spans under a recording parent only,
\* and the backend's sampler keeps the child of a recorded parent.
TracerStart(sp, ctx, name, kind, attrs, c, hook) ==
    Append(sp, [name |-> name, parent |-> SpanFromContext(ctx), kind |-> kind,
                recording |-> TRUE, attrs |-> SetAttrs(<<>>, attrs),
                status |-> [code |-> "Unset", msg |-> ""], events |-> <<>>,
                ended |-> FALSE, endCalls |-> 0, byCall |-> c, byHook |-> hook])

---------------------------------------------------------------------------
(* sync.Pool of slices.  mem[b] is what array b holds: the pooled slice    *)
(* header stays at length 0, the array keeps what was last appended.       *)

attrSliceCap == 10
optsSliceCap == 10

EmptyPool == [free |-> {}, mem |-> <<>>]

\* Pool.Get: an idle buffer, or a new one from New.  New is called when no
\* buffer is idle, and may be called although one is: the pool is free to
\* drop what was Put and to find nothing where something is.
PoolGet(pool) ==
    {[pool |-> [pool EXCEPT !.mem = Append(@, <<>>)], buf |-> Len(pool.mem) + 1]}
    \cup {[pool |-> [pool EXCEPT !.free = @ \ {b}], buf |-> b] : b \in pool.free}

\* Pool.Put
PoolPut(pool, b) == [pool EXCEPT !.free = @ \cup {b}]

\* attrs = append(attrs, chunk...) for each chunk in turn, starting from the
\* borrowed array resliced to empty.  While the appended length fits the
\* array's capacity the elements are written in place, and what the array
\* held behind them stays; the append that does not fit moves the slice to a
\* fresh array and leaves the borrowed one as it was.
RECURSIVE AppendChunks(_, _, _)
AppendChunks(slice, chunks, cap) ==
    IF chunks = <<>> THEN slice
    ELSE LET chunk == Head(chunks)
             all == slice.data \o chunk
             fits == slice.inPlace /\ Len(all) <= cap
         IN  AppendChunks([data |-> all,
                           inPlace |-> IF chunk = <<>> THEN slice.inPlace ELSE fits,
                           mem |-> IF chunk # <<>> /\ fits
                                   THEN all \o SubSeq(slice.mem, Len(all) + 1, Len(slice.mem))
                                   ELSE slice.mem],
                          Tail(chunks), cap)

\* The appends, as a bug would have them: the borrowed slice is not resliced
\* to empty, what the array held stays in front
FillSliceNoReset(old, chunks, cap) ==
    AppendChunks([data |-> old, inPlace |-> TRUE, mem |-> old], chunks, cap)

\* (*p)[:0] followed by the appends
FillSlice(old, chunks, cap) ==
    AppendChunks([data |-> <<>>, inPlace |-> TRUE, mem |-> old], chunks, cap)

---------------------------------------------------------------------------
(* The driver's records. *)

NilConfig == [isNil |-> TRUE, Host |-> "", Port |-> 0, User |-> "", Database |-> ""]
SomeConfig == [isNil |-> FALSE, Host |-> "db.local", Port |-> 5432, User |-> "app",
               Database |-> "shop"]

StmtSelect == <<"s", "e", "l", "e", "c", "t", " ", "1">>
StmtBlank == <<" ">>

NoData == [SQL |-> <<>>, Args |-> <<>>, TableName |-> <<>>, BatchNil |-> TRUE,
           BatchLen |-> 0, Name |-> "", Conn |-> NilConfig]

\* The connection (or pool) handed to a hook: nil, or one with a configuration.
ConnChoices == {NilConfig, SomeConfig}
Statements == {StmtSelect}
ArgLists == {<<[type |-> "int", val |-> "42"], [type |-> "nil", val |-> ""]>>}
TableNames == {<< <<"t", "\"", "U+0000", "x">> >>}
PrepareNames == {"", "stmt1"}

\* fmt.Sprintf("%+v", arg)
FormatArg(a) == IF a.type = "nil" THEN "<nil>" ELSE a.val

\* pgx.Identifier.Sanitize: the NUL bytes of each part removed, the part
\* quoted, an embedded quote doubled, the parts joined by "."
RECURSIVE RemoveNUL(_)
RemoveNUL(s) ==
    IF s = <<>> THEN <<>>
    ELSE (IF Head(s) = "U+0000" THEN <<>> ELSE <<Head(s)>>) \o RemoveNUL(Tail(s))

RECURSIVE QuoteChars(_)
QuoteChars(s) ==
    IF s = <<>> THEN <<>>
    ELSE (IF Head(s) = "\"" THEN <<"\"", "\"">> ELSE <<Head(s)>>) \o QuoteChars(Tail(s))

RECURSIVE Sanitize(_)
Sanitize(ident) ==
    IF ident = <<>> THEN <<>>
    ELSE <<"\"">> \o QuoteChars(RemoveNUL(Head(ident))) \o <<"\"">>
         \o (IF Tail(ident) = <<>> THEN <<>> ELSE <<".">> \o Sanitize(Tail(ident)))

---------------------------------------------------------------------------
(* Tracer construction. *)

Options == {"WithTrimSQLInSpanName", "WithDisableQuerySpanNamePrefix",
            "WithDisableConnectionDetailsInAttributes",
            "WithDisableSQLStatementInAttributes", "WithIncludeQueryParameters",
            "WithTracerAttributes", "WithMeterAttributes", "WithMeterAttributes(team)",
            "WithSpanNameFunc",
            "WithTracerProvider(nil)", "WithTracerProvider(given)",
            "WithMeterProvider(nil)", "WithMeterProvider(given)"}

\* The providers: the global one of otel.GetTracerProvider() and
\* otel.GetMeterProvider(), one a caller passes, and the nil interface.
GlobalProvider == "global"
GivenProvider == "given"
NilProvider == "nil"

ExtraAttr == <<"service.name", "orders">>
TeamAttr == <<"team", "core">>

\* The allocator behind append, on a 64-bit platform from Go 1.22 on: the
\* size classes of small objects, the size of an attribute.KeyValue, the
\* header an object with pointers of more than 512 bytes carries, and the
\* page large objects are rounded to.
SizeClasses ==
    {8, 16, 24, 32, 48, 64, 80, 96, 112, 128, 144, 160, 176, 192, 208, 224,
     240, 256, 288, 320, 352, 384, 416, 448, 480, 512, 576, 640, 704, 768,
     896, 1024, 1152, 1280, 1408, 1536, 1792, 2048, 2304, 2688, 3072, 3200,
     3456, 4096, 4864, 5376, 6144, 6528, 6784, 6912, 8192, 9472, 9728,
     10240, 10880, 12288, 13568, 14336, 16384, 18432, 19072, 20480, 21760,
     24576, 27264, 28672, 32768}

\* runtime.roundupsize for an object that holds pointers: the bytes the
\* allocator has for a request of size bytes
roundupsize(size) ==
    LET mallocHeaderSize == 8
        minSizeForMallocHeader == 512
        maxSmallSize == 32768
        pageSize == 8192
    IN
    IF size <= maxSmallSize - mallocHeaderSize
    THEN LET header == IF size > minSizeForMallocHeader THEN mallocHeaderSize ELSE 0
             class == CHOOSE c \in SizeClasses :
                          /\ c >= size + header
                          /\ \A d \in SizeClasses : d >= size + header => c <= d
         IN  class - header
    ELSE ((size + pageSize - 1) \div pageSize) * pageSize

\* runtime.nextslicecap: twice the old capacity, or the needed length when
\* that is more; from capacity 256 on the capacity grows by a quarter of
\* itself and 192 until it suffices
RECURSIVE GrowSlowly(_, _)
GrowSlowly(newcap, needed) ==
    IF newcap >= needed THEN newcap
    ELSE GrowSlowly(newcap + ((newcap + 3 * 256) \div 4), needed)

nextslicecap(needed, capacity) ==
    IF needed > 2 * capacity THEN needed
    ELSE IF capacity < 256 THEN 2 * capacity
    ELSE GrowSlowly(capacity, needed)

\* The capacity append gives a slice of attribute.KeyValue that has to hold
\* needed elements: the same when they fit, else what the allocator has for
\* the next capacity.  (Before Go 1.22 the allocator has no header, and the
\* capacity is that of the size class.)
GrowCap(capacity, needed) ==
    LET KeyValueSize == 64
    IN  IF needed <= capacity THEN capacity
        ELSE roundupsize(nextslicecap(needed, capacity) * KeyValueSize) \div KeyValueSize

defaultConfig ==
    [tracerProvider |-> GlobalProvider,
     meterProvider |-> GlobalProvider,
     tracerAttrs |-> <<DBSystemPostgreSQL>>,
     meterAttrs |-> <<DBSystemPostgreSQL>>,
     meterAttrsCap |-> 1,
     trimQuerySpanName |-> FALSE,
     spanNameFunc |-> DefaultPolicy,
     prefixQuerySpanName |-> TRUE,
     logSQLStatement |-> TRUE,
     logConnectionDetails |-> TRUE,
     includeParams |-> FALSE]

ApplyOption(cfg, opt) ==
    CASE opt = "WithTrimSQLInSpanName" -> [cfg EXCEPT !.trimQuerySpanName = TRUE]
      [] opt = "WithDisableQuerySpanNamePrefix" -> [cfg EXCEPT !.prefixQuerySpanName = FALSE]
      [] opt = "WithDisableConnectionDetailsInAttributes" ->
             [cfg EXCEPT !.logConnectionDetails = FALSE]
      [] opt = "WithDisableSQLStatementInAttributes" -> [cfg EXCEPT !.logSQLStatement = FALSE]
      [] opt = "WithIncludeQueryParameters" -> [cfg EXCEPT !.includeParams = TRUE]
      [] opt = "WithTracerAttributes" -> [cfg EXCEPT !.tracerAttrs = Append(@, ExtraAttr)]
      [] opt = "WithMeterAttributes" ->
             [cfg EXCEPT !.meterAttrs = Append(@, ExtraAttr),
                         !.meterAttrsCap = GrowCap(@, Len(cfg.meterAttrs) + 1)]
      [] opt = "WithMeterAttributes(team)" ->
             [cfg EXCEPT !.meterAttrs = Append(@, TeamAttr),
                         !.meterAttrsCap = GrowCap(@, Len(cfg.meterAttrs) + 1)]
      [] opt = "WithSpanNameFunc" -> [cfg EXCEPT !.spanNameFunc = AnnotationPolicy]
      [] opt = "WithTracerProvider(nil)" -> cfg
      [] opt = "WithTracerProvider(given)" -> [cfg EXCEPT !.tracerProvider = GivenProvider]
      [] opt = "WithMeterProvider(nil)" -> cfg
      [] opt = "WithMeterProvider(given)" -> [cfg EXCEPT !.meterProvider = GivenProvider]

RECURSIVE ApplyOptions(_, _)
ApplyOptions(cfg, opts) ==
    IF opts = <<>> THEN cfg ELSE ApplyOptions(ApplyOption(cfg, Head(opts)), Tail(opts))

\* What the meter answers to Int64Histogram and Int64Counter: the instrument
\* and an error.  The backend hands out a usable instrument also when it
\* reports an error.
MeterAnswers(name) ==
    {[inst |-> "instrument", err |-> NilErr],
     [inst |-> "instrument", err |-> <<ErrLayer("metric.error", name, "")>>]}

NilInstrument == "nil"

\* createMetrics, as a bug would have it: give up at the first failure
createMetricsReturnEarly(hist, cnt) ==
    [operationDuration |-> hist.inst,
     operationErrors |-> IF hist.err # NilErr THEN NilInstrument ELSE cnt.inst,
     handled |-> (IF hist.err # NilErr THEN <<hist.err>>
                  ELSE IF cnt.err # NilErr THEN <<cnt.err>> ELSE <<>>)]

\* createMetrics: both instruments are kept as the meter returned them, each
\* error goes to otel.Handle
createMetrics(hist, cnt) ==
    [operationDuration |-> hist.inst,
     operationErrors |-> cnt.inst,
     handled |-> (IF hist.err # NilErr THEN <<hist.err>> ELSE <<>>)
                 \o (IF cnt.err # NilErr THEN <<cnt.err>> ELSE <<>>)]

\* attribute.NewSet(attrs...): one value per key, the last one given
AttributeSet(attrs) ==
    LET d == SetAttrs(<<>>, attrs) IN {d[i] : i \in 1..Len(d)}

\* The attribute keys of the model, in the order Go compares strings.
KeysInOrder == <<"db.system", PGXOperationTypeKey, "service.name", "team">>
KeyRank(key) == CHOOSE i \in 1..Len(KeysInOrder) : KeysInOrder[i] = key

\* sort.Stable of a list of attributes by key
RECURSIVE InsertStable(_, _)
InsertStable(sorted, kv) ==
    IF sorted = <<>> THEN <<kv>>
    ELSE IF KeyRank(Head(sorted)[1]) <= KeyRank(kv[1])
         THEN <<Head(sorted)>> \o InsertStable(Tail(sorted), kv)
         ELSE <<kv>> \o sorted

RECURSIVE SortStable(_)
SortStable(kvs) ==
    IF kvs = <<>> THEN <<>>
    ELSE InsertStable(SortStable(SubSeq(kvs, 1, Len(kvs) - 1)), kvs[Len(kvs)])

\* The loop of attribute.NewSet that leaves the last value of every key at
\* the end of the slice, by swapping within the slice.
RECURSIVE Deduplicate(_, _, _)
Deduplicate(kvs, position, offset) ==
    IF offset < 1 THEN [kvs |-> kvs, position |-> position]
    ELSE IF kvs[offset][1] = kvs[position][1]
         THEN Deduplicate(kvs, position, offset - 1)
         ELSE Deduplicate([kvs EXCEPT ![offset] = kvs[position - 1],
                                      ![position - 1] = kvs[offset]],
                          position - 1, offset - 1)

\* attribute.NewSet(kvs...): the set, and the slice it was given, which it
\* sorts and reorders in place.
NewSet(kvs) ==
    IF kvs = <<>> THEN [set |-> {}, kvs |-> kvs]
    ELSE LET d == Deduplicate(SortStable(kvs), Len(kvs), Len(kvs) - 1)
         IN  [set |-> {d.kvs[i] : i \in d.position..Len(kvs)}, kvs |-> d.kvs]

\* The operations in the order createAttributeSets goes through them.
operations == <<pgxOperationQuery, pgxOperationCopy, pgxOperationBatch,
                pgxOperationConnect, pgxOperationPrepare, pgxOperationAcquire>>

\* The loop of createAttributeSets from the k-th operation on.  With spare
\* capacity, append(t.meterAttrs, tag) writes the tag into the array of
\* t.meterAttrs, and NewSet reorders that array; without, append copies.
RECURSIVE createAttributeSetsFrom(_, _, _, _)
createAttributeSetsFrom(meterAttrs, spare, k, sets) ==
    IF k > Len(operations) THEN [metricAttrs |-> sets, meterAttrs |-> meterAttrs]
    ELSE LET op == operations[k]
             made == NewSet(Append(meterAttrs, <<PGXOperationTypeKey, op>>))
         IN  createAttributeSetsFrom(
                 IF spare THEN SubSeq(made.kvs, 1, Len(meterAttrs)) ELSE meterAttrs,
                 spare, k + 1, [sets EXCEPT ![op] = made.set])

\* createAttributeSets: t.metricAttrs, and what t.meterAttrs holds afterwards
createAttributeSets(meterAttrs, capacity) ==
    createAttributeSetsFrom(meterAttrs, capacity > Len(meterAttrs), 1,
                            [op \in OperationKinds |-> {}])

NewTracer(opts, hist, cnt) ==
    LET cfg == ApplyOptions(defaultConfig, opts)
        m == createMetrics(hist, cnt)
        a == createAttributeSets(cfg.meterAttrs, cfg.meterAttrsCap)
    IN  [tracer |->
            [tracer |-> cfg.tracerProvider,
             meter |-> cfg.meterProvider,
             tracerAttrs |-> cfg.tracerAttrs,
             meterAttrs |-> a.meterAttrs,
             metricAttrs |-> a.metricAttrs,
             operationDuration |-> m.operationDuration,
             operationErrors |-> m.operationErrors,
             trimQuerySpanName |-> cfg.trimQuerySpanName,
             spanNameFunc |-> cfg.spanNameFunc,
             prefixQuerySpanName |-> cfg.prefixQuerySpanName,
             logSQLStatement |-> cfg.logSQLStatement,
             logConnectionDetails |-> cfg.logConnectionDetails,
             includeParams |-> cfg.includeParams],
         handled |-> m.handled]

\* t.spanNameFunc(stmt): the name the Tracer's naming policy returns
SpanNameFunc(t, stmt) == TracerSqlOperationName(t, stmt).name

---------------------------------------------------------------------------
(* Attribute Builder. *)

\* connectionAttributesFromConfig
connectionAttributesFromConfig(config) ==
    IF ~config.isNil
    THEN <<DBSystemPostgreSQL,
           <<"server.address", config.Host>>,
           <<"server.port", config.Port>>,
           <<"user.name", config.User>>,
           <<"db.namespace", config.Database>>>>
    ELSE <<>>

\* makeParamsAttribute
makeParamsAttribute(args) ==
    <<QueryParametersKey, [i \in 1..Len(args) |-> FormatArg(args[i])]>>

\* The connection attributes of a hook, as a bug would have them: the
\* switch is not consulted
ConnChunkSwitchIgnored(t, conn) ==
    IF ~conn.isNil THEN connectionAttributesFromConfig(conn) ELSE <<>>

\* The connection attributes of a hook, as a bug would have them: the nil
\* test left out, the attributes read from a zero configuration
ConnChunkNoNilTest(t, conn) ==
    IF t.logConnectionDetails
    THEN <<DBSystemPostgreSQL,
           <<"server.address", conn.Host>>,
           <<"server.port", conn.Port>>,
           <<"user.name", conn.User>>,
           <<"db.namespace", conn.Database>>>>
    ELSE <<>>

\* The appends of a hook that opens a span, in the order the hook makes them.
ConnChunk(t, conn) ==
    IF t.logConnectionDetails /\ ~conn.isNil
    THEN connectionAttributesFromConfig(conn) ELSE <<>>

\* The statement attributes of the query and batch-item hooks, as a bug
\* would have them: the parameters are tested apart from the statement switch
StatementChunksParamsApart(t, data) ==
    << IF t.logSQLStatement
       THEN <<<<"db.query.text", data.SQL>>,
              <<"db.operation.name", SpanNameFunc(t, data.SQL)>>>>
       ELSE <<>>,
       IF t.includeParams THEN <<makeParamsAttribute(data.Args)>> ELSE <<>> >>

StatementChunks(t, data) ==
    IF t.logSQLStatement
    THEN << <<<<"db.query.text", data.SQL>>,
              <<"db.operation.name", SpanNameFunc(t, data.SQL)>>>>,
            IF t.includeParams THEN <<makeParamsAttribute(data.Args)>> ELSE <<>> >>
    ELSE <<>>

AttrChunks(t, hook, data) ==
    CASE hook \in {pgxOperationQuery, "batch_query"} ->
            <<t.tracerAttrs, ConnChunk(t, data.Conn)>> \o StatementChunks(t, data)
      [] hook = pgxOperationCopy ->
            <<t.tracerAttrs,
              <<<<"db.collection.name", Sanitize(data.TableName)>>>>,
              ConnChunk(t, data.Conn)>>
      [] hook = pgxOperationBatch ->
            <<t.tracerAttrs,
              <<<<"db.operation.batch.size", IF data.BatchNil THEN 0 ELSE data.BatchLen>>>>,
              ConnChunk(t, data.Conn)>>
      [] hook \in {pgxOperationConnect, pgxOperationAcquire} ->
            <<t.tracerAttrs, ConnChunk(t, data.Conn)>>
      [] hook = pgxOperationPrepare ->
            <<t.tracerAttrs,
              IF data.Name # "" THEN <<<<PrepareStmtNameKey, data.Name>>>> ELSE <<>>,
              ConnChunk(t, data.Conn),
              <<<<"db.operation.name", SpanNameFunc(t, data.SQL)>>>>,
              IF t.logSQLStatement THEN <<<<"db.query.text", data.SQL>>>> ELSE <<>> >>

\* The span names, as a bug would have them: a batch item keeps the
\* "batch query " prefix when its name is trimmed
SpanNameItemKeepsPrefix(t, hook, data) ==
    CASE hook = pgxOperationQuery ->
            (IF t.prefixQuerySpanName THEN S_query ELSE <<>>)
            \o (IF t.trimQuerySpanName THEN SpanNameFunc(t, data.SQL) ELSE data.SQL)
      [] hook = pgxOperationPrepare ->
            (IF t.prefixQuerySpanName THEN S_prepare ELSE <<>>)
            \o (IF t.trimQuerySpanName THEN SpanNameFunc(t, data.SQL) ELSE data.SQL)
      [] hook = "batch_query" ->
            (IF t.prefixQuerySpanName THEN S_batch_query ELSE <<>>)
            \o (IF t.trimQuerySpanName THEN SpanNameFunc(t, data.SQL) ELSE data.SQL)
      [] hook = pgxOperationCopy -> S_copy_from \o Sanitize(data.TableName)
      [] hook = pgxOperationBatch -> S_batch_start
      [] hook = pgxOperationConnect -> S_connect
      [] hook = pgxOperationAcquire -> S_pool_acquire

\* The span name each hook passes to tracer.Start.
SpanName(t, hook, data) ==
    CASE hook = pgxOperationQuery ->
            (IF t.prefixQuerySpanName THEN S_query ELSE <<>>)
            \o (IF t.trimQuerySpanName THEN SpanNameFunc(t, data.SQL) ELSE data.SQL)
      [] hook = pgxOperationPrepare ->
            (IF t.prefixQuerySpanName THEN S_prepare ELSE <<>>)
            \o (IF t.trimQuerySpanName THEN SpanNameFunc(t, data.SQL) ELSE data.SQL)
      [] hook = "batch_query" ->
            IF t.trimQuerySpanName
            THEN (IF t.prefixQuerySpanName THEN S_query ELSE <<>>) \o SpanNameFunc(t, data.SQL)
            ELSE (IF t.prefixQuerySpanName THEN S_batch_query ELSE <<>>) \o data.SQL
      [] hook = pgxOperationCopy -> S_copy_from \o Sanitize(data.TableName)
      [] hook = pgxOperationBatch -> S_batch_start
      [] hook = pgxOperationConnect -> S_connect
      [] hook = pgxOperationAcquire -> S_pool_acquire

---------------------------------------------------------------------------
(* Error and duration recording. *)

\* recordSpanError, as a bug would have it: the no-rows test left out
recordSpanErrorNoRowsCounted(sp, s, err) ==
    IF err # NilErr
    THEN LET sp1 == SpanSetStatus(SpanRecordError(sp, s, err), s, "Error", ErrorMessage(err))
         IN  IF ErrorsAsPgError(err)
             THEN SpanSetAttributes(sp1, s, <<<<SQLStateKey, PgErrorCode(err)>>>>)
             ELSE sp1
    ELSE sp

\* recordSpanError
recordSpanError(sp, s, err) ==
    IF err # NilErr /\ ~ErrorsIs(err, "sql.ErrNoRows")
    THEN LET sp1 == SpanSetStatus(SpanRecordError(sp, s, err), s, "Error", ErrorMessage(err))
         IN  IF ErrorsAsPgError(err)
             THEN SpanSetAttributes(sp1, s, <<<<SQLStateKey, PgErrorCode(err)>>>>)
             ELSE sp1
    ELSE sp

\* A method call on an instrument field: it panics on the nil interface.
\* out is the log of the calls the instrument received (at: when).
InstrumentCall(inst, out, entry) ==
    IF inst = NilInstrument
    THEN [out |-> out, panic |-> TRUE]
    ELSE [out |-> Append(out, entry), panic |-> FALSE]

\* incrementOperationErrorCount
incrementOperationErrorCount(t, adds, ctx, err, pgxOperation) ==
    IF err # NilErr /\ ~ErrorsIs(err, "sql.ErrNoRows")
    THEN InstrumentCall(t.operationErrors, adds,
                        [ctx |-> ctx, n |-> 1, attrs |-> t.metricAttrs[pgxOperation]])
    ELSE [out |-> adds, panic |-> FALSE]

\* time.Duration.Milliseconds, of a duration in microseconds
Milliseconds(d) == IF d >= 0 THEN d \div 1000 ELSE -((-d) \div 1000)

\* recordOperationDuration, as a bug would have it: the start time is kept
\* in one place for all calls, where the latest start hook overwrites it
recordOperationDurationSharedStart(t, samples, ctx, pgxOperation) ==
    LET started == {calls[d].startedAt : d \in {e \in Calls : calls[e].pc # "idle"}}
        latest == CHOOSE x \in started : \A y \in started : y <= x
    IN  IF ctx.hasStart
        THEN InstrumentCall(t.operationDuration, samples,
                            [ctx |-> ctx, ms |-> Milliseconds(now - latest),
                             attrs |-> t.metricAttrs[pgxOperation], at |-> now])
        ELSE [out |-> samples, panic |-> FALSE]

\* recordOperationDuration, as a bug would have it: a context without start
\* time counts as started at the zero time
recordOperationDurationUnchecked(t, samples, ctx, pgxOperation) ==
    InstrumentCall(t.operationDuration, samples,
                   [ctx |-> ctx, ms |-> Milliseconds(now - ctx.startTime),
                    attrs |-> t.metricAttrs[pgxOperation], at |-> now])

\* recordOperationDuration
recordOperationDuration(t, samples, ctx, pgxOperation) ==
    IF ctx.hasStart
    THEN InstrumentCall(t.operationDuration, samples,
                        [ctx |-> ctx, ms |-> Milliseconds(now - ctx.startTime),
                         attrs |-> t.metricAttrs[pgxOperation], at |-> now])
    ELSE [out |-> samples, panic |-> FALSE]

---------------------------------------------------------------------------
(* The hooks.  calls[c] is one database call of the driver: the hook it is *)
(* in, that hook's locals, the context the start hook returned, and what   *)
(* the driver handed over (when it called, with what error).               *)

NoSlice == [inPlace |-> TRUE, len |-> 0, heap |-> <<>>]

IdleCall ==
    [pc |-> "idle", kind |-> "none", ambient |-> NoSpan, conn |-> NilConfig,
     ctx |-> CallerContext(0, NoSpan),
     data |-> NoData, attrsP |-> 0, optsP |-> 0, name |-> <<>>,
     items |-> 0, itemErrs |-> <<>>, err |-> NilErr, startedAt |-> 0,
     batchNil |-> TRUE, outer |-> 0]

RowsAffected == 3

\* The start hooks, as a bug would have them: the recording test comes
\* first, and the start time is stored only past it
StartHookStampAfterCheck(c, kind, ambient, data) ==
    /\ calls[c].pc = "idle"
    /\ \A d \in 1..(c - 1) : calls[d].pc # "idle"
    /\ LET ctx0 == CallerContext(c, ambient)
           rec == IsRecording(spans, SpanFromContext(ctx0))
           ctx == IF rec THEN WithStartTime(ctx0, now) ELSE ctx0
       IN  calls' = [calls EXCEPT ![c] =
                        [@ EXCEPT !.kind = kind, !.ambient = ambient, !.ctx = ctx,
                                  !.startedAt = now, !.conn = data.Conn,
                                  !.batchNil = data.BatchNil,
                                  !.pc = IF rec THEN "start_build" ELSE "inflight",
                                  !.data = IF rec THEN data ELSE NoData]]
    /\ UNCHANGED <<statsVars, named, now, options, tracer, meter, handled, spans, durationSamples, errorAdds,
                   attrPool, optsPool>>

\* The first statements of every start hook: the start time goes into the
\* context, and the hook returns at once under a span that is not recording.
StartHook(c, kind, ambient, data) ==
    /\ calls[c].pc = "idle"
    /\ \A d \in 1..(c - 1) : calls[d].pc # "idle"
    /\ LET ctx == WithStartTime(CallerContext(c, ambient), now)
           rec == IsRecording(spans, SpanFromContext(ctx))
       IN  calls' = [calls EXCEPT ![c] =
                        [@ EXCEPT !.kind = kind, !.ambient = ambient, !.ctx = ctx,
                                  !.startedAt = now, !.conn = data.Conn,
                                  !.batchNil = data.BatchNil,
                                  !.pc = IF rec THEN "start_build" ELSE "inflight",
                                  !.data = IF rec THEN data ELSE NoData]]
    /\ UNCHANGED <<statsVars, named, now, options, tracer, meter, handled, spans, durationSamples, errorAdds,
                   attrPool, optsPool>>

TraceQueryStart(c, in) ==
    \E ambient \in in.ambients, conn \in in.conns, sql \in in.stmts, args \in ArgLists :
        StartHook(c, pgxOperationQuery, ambient,
                  [NoData EXCEPT !.Conn = conn, !.SQL = sql, !.Args = args])

TraceCopyFromStart(c, in) ==
    \E ambient \in in.ambients, conn \in in.conns, table \in TableNames :
        StartHook(c, pgxOperationCopy, ambient,
                  [NoData EXCEPT !.Conn = conn, !.TableName = table])

TraceBatchStart(c, in) ==
    \E ambient \in in.ambients, conn \in in.conns, batchNil \in in.batchNil :
        StartHook(c, pgxOperationBatch, ambient,
                  [NoData EXCEPT !.Conn = conn, !.BatchNil = batchNil,
                                 !.BatchLen = IF batchNil THEN 0 ELSE MaxItems])

TraceConnectStart(c, in) ==
    \E ambient \in in.ambients, config \in in.conns :
        StartHook(c, pgxOperationConnect, ambient, [NoData EXCEPT !.Conn = config])

TracePrepareStart(c, in) ==
    \E ambient \in in.ambients, conn \in in.conns, sql \in in.stmts,
       name \in PrepareNames :
        StartHook(c, pgxOperationPrepare, ambient,
                  [NoData EXCEPT !.Conn = conn, !.SQL = sql, !.Name = name])

TraceAcquireStart(c, in) ==
    \E ambient \in in.ambients, config \in in.conns :
        StartHook(c, pgxOperationAcquire, ambient, [NoData EXCEPT !.Conn = config])

\* TracePrepareStart on the context another call's start hook returned, as a
\* bug would have it: the start time is a field the two calls share, and the
\* inner start overwrites the outer call's
TracePrepareStartInsideSharedCarrier(c, outer, in) ==
    /\ calls[c].pc = "idle"
    /\ c # outer
    /\ calls[outer].pc = "inflight"
    /\ \E conn \in in.conns, sql \in in.stmts, name \in PrepareNames :
        LET ctx == WithStartTime([calls[outer].ctx EXCEPT !.req = c], now)
            rec == IsRecording(spans, SpanFromContext(ctx))
            data == [NoData EXCEPT !.Conn = conn, !.SQL = sql, !.Name = name]
        IN  calls' = [calls EXCEPT
                         ![outer] = [@ EXCEPT !.ctx = WithStartTime(@, now)],
                         ![c] =
                         [@ EXCEPT !.kind = pgxOperationPrepare,
                                   !.ambient = SpanFromContext(calls[outer].ctx),
                                   !.outer = outer, !.ctx = ctx,
                                   !.startedAt = now, !.conn = data.Conn,
                                   !.batchNil = data.BatchNil,
                                   !.pc = IF rec THEN "start_build" ELSE "inflight",
                                   !.data = IF rec THEN data ELSE NoData]]
    /\ UNCHANGED <<statsVars, named, now, options, tracer, meter, handled, spans, durationSamples, errorAdds,
                   attrPool, optsPool>>

\* TracePrepareStart called with the context the start hook of call outer
\* returned, while that call is in flight (the driver prepares a statement
\* inside a query or a batch): the context of the inner call derives from the
\* outer call's, which is a value and stays as it is.
TracePrepareStartInside(c, outer, in) ==
    /\ calls[c].pc = "idle"
    /\ c # outer
    /\ calls[outer].pc = "inflight"
    /\ \E conn \in in.conns, sql \in in.stmts, name \in PrepareNames :
        LET ctx == WithStartTime([calls[outer].ctx EXCEPT !.req = c], now)
            rec == IsRecording(spans, SpanFromContext(ctx))
            data == [NoData EXCEPT !.Conn = conn, !.SQL = sql, !.Name = name]
        IN  calls' = [calls EXCEPT ![c] =
                         [@ EXCEPT !.kind = pgxOperationPrepare,
                                   !.ambient = SpanFromContext(calls[outer].ctx),
                                   !.outer = outer, !.ctx = ctx,
                                   !.startedAt = now, !.conn = data.Conn,
                                   !.batchNil = data.BatchNil,
                                   !.pc = IF rec THEN "start_build" ELSE "inflight",
                                   !.data = IF rec THEN data ELSE NoData]]
    /\ UNCHANGED <<statsVars, named, now, options, tracer, meter, handled, spans, durationSamples, errorAdds,
                   attrPool, optsPool>>

\* The hook calls the naming policy while it fills the attributes (for the
\* operation name), or only after them (for a trimmed span name), or not at
\* all.
PolicyForAttrs(t, hook) ==
    \/ hook \in {pgxOperationQuery, "batch_query"} /\ t.logSQLStatement
    \/ hook = pgxOperationPrepare

PolicyForName(t, hook) ==
    hook \in {pgxOperationQuery, "batch_query", pgxOperationPrepare} /\ t.trimQuerySpanName

\* The appends a hook has made when it calls the naming policy for the
\* operation name.
ChunksBeforePolicy(t, hook, d) ==
    SubSeq(AttrChunks(t, hook, d), 1, IF hook = pgxOperationPrepare THEN 3 ELSE 2)

\* Both buffers are borrowed, resliced to empty and filled.  When the naming
\* policy panics the hook panics: the deferred Puts give the buffers back,
\* holding what had been appended by then.
HookBuild(c, hook, next) ==
    \E go \in PoolGet(optsPool), ga \in PoolGet(attrPool) :
        LET t == tracer
            d == calls[c].data
            panics == TracerSqlOperationName(t, d.SQL).panic
            early == panics /\ PolicyForAttrs(t, hook)
            late == panics /\ ~early /\ PolicyForName(t, hook)
            sl == FillSlice(ga.pool.mem[ga.buf],
                            IF early THEN ChunksBeforePolicy(t, hook, d)
                            ELSE AttrChunks(t, hook, d),
                            attrSliceCap)
            ref == [inPlace |-> sl.inPlace, len |-> Len(sl.data),
                    heap |-> IF sl.inPlace THEN <<>> ELSE sl.data]
            os == FillSlice(go.pool.mem[go.buf],
                            << <<[opt |-> "WithSpanKind", kind |-> "client", attrs |-> NoSlice],
                                 [opt |-> "WithAttributes", kind |-> "", attrs |-> ref]>> >>,
                            optsSliceCap)
        IN  /\ attrPool' = IF early \/ late
                           THEN PoolPut([ga.pool EXCEPT !.mem[ga.buf] = sl.mem], ga.buf)
                           ELSE [ga.pool EXCEPT !.mem[ga.buf] = sl.mem]
            /\ optsPool' = IF early THEN PoolPut(go.pool, go.buf)
                           ELSE IF late
                           THEN PoolPut([go.pool EXCEPT !.mem[go.buf] = os.mem], go.buf)
                           ELSE [go.pool EXCEPT !.mem[go.buf] = os.mem]
            /\ calls' = [calls EXCEPT ![c] =
                            IF early \/ late
                            THEN [@ EXCEPT !.pc = "panicked"]
                            ELSE [@ EXCEPT !.pc = next, !.attrsP = ga.buf, !.optsP = go.buf,
                                           !.name = SpanName(t, hook, d)]]
            /\ UNCHANGED <<statsVars, named, now, options, tracer, meter, handled, spans, durationSamples, errorAdds>>

\* What tracer.Start reads through the options: the span kind and the
\* attribute slice, which still lies in the borrowed array unless it outgrew
\* it.
OptionsKind(c) == optsPool.mem[calls[c].optsP][1].kind

OptionsAttrs(c) ==
    LET ref == optsPool.mem[calls[c].optsP][2].attrs
    IN  IF ref.inPlace THEN SubSeq(attrPool.mem[calls[c].attrsP], 1, ref.len)
        ELSE ref.heap

StartBuild(c) ==
    /\ calls[c].pc = "start_build"
    /\ HookBuild(c, calls[c].kind, "start_span")

\* The end of a start hook, as a bug would have it: the attribute buffer is
\* not put back
StartSpanKeepsAttrBuffer(c) ==
    /\ calls[c].pc = "start_span"
    /\ spans' = TracerStart(spans, calls[c].ctx, calls[c].name, OptionsKind(c),
                            OptionsAttrs(c), c, calls[c].kind)
    /\ optsPool' = PoolPut(optsPool, calls[c].optsP)
    /\ calls' = [calls EXCEPT ![c] =
                    [@ EXCEPT !.pc = "inflight",
                              !.ctx = ContextWithSpan(@, Len(spans) + 1),
                              !.data = NoData, !.attrsP = 0, !.optsP = 0, !.name = <<>>]]
    /\ UNCHANGED <<statsVars, named, now, options, tracer, meter, handled, durationSamples, errorAdds,
                   attrPool>>

\* tracer.Start, the deferred Puts, return of the new context
StartSpan(c) ==
    /\ calls[c].pc = "start_span"
    /\ spans' = TracerStart(spans, calls[c].ctx, calls[c].name, OptionsKind(c),
                            OptionsAttrs(c), c, calls[c].kind)
    /\ attrPool' = PoolPut(attrPool, calls[c].attrsP)
    /\ optsPool' = PoolPut(optsPool, calls[c].optsP)
    /\ calls' = [calls EXCEPT ![c] =
                    [@ EXCEPT !.pc = "inflight",
                              !.ctx = ContextWithSpan(@, Len(spans) + 1),
                              !.data = NoData, !.attrsP = 0, !.optsP = 0, !.name = <<>>]]
    /\ UNCHANGED <<statsVars, named, now, options, tracer, meter, handled, durationSamples, errorAdds>>

\* TraceBatchQuery, as a bug would have it: the recording test comes before
\* the error count
TraceBatchQueryCountsWhenRecording(c, in) ==
    /\ calls[c].pc = "inflight"
    /\ calls[c].kind = pgxOperationBatch
    /\ calls[c].items < MaxItems
    /\ \E err \in in.itemErrs, sql \in in.stmts, args \in ArgLists :
        LET ctx == calls[c].ctx
            rec == IsRecording(spans, SpanFromContext(ctx))
            inc == IF rec
                   THEN incrementOperationErrorCount(tracer, errorAdds, ctx, err,
                                                     pgxOperationBatch)
                   ELSE [out |-> errorAdds, panic |-> FALSE]
        IN  /\ errorAdds' = inc.out
            /\ calls' = [calls EXCEPT ![c] =
                            [@ EXCEPT !.itemErrs = Append(@, err),
                                      !.items = @ + 1,
                                      !.pc = IF inc.panic THEN "panicked"
                                             ELSE IF rec THEN "item_build" ELSE "inflight",
                                      !.data = IF ~inc.panic /\ rec
                                               THEN [NoData EXCEPT !.Conn = calls[c].conn,
                                                                   !.SQL = sql, !.Args = args]
                                               ELSE NoData]]
    /\ UNCHANGED <<statsVars, named, now, options, tracer, meter, handled, spans, durationSamples, attrPool, optsPool>>

\* TraceBatchQuery up to its recording test
TraceBatchQuery(c, in) ==
    /\ calls[c].pc = "inflight"
    /\ calls[c].kind = pgxOperationBatch
    /\ calls[c].items < MaxItems
    /\ \E err \in in.itemErrs, sql \in in.stmts, args \in ArgLists :
        LET ctx == calls[c].ctx
            inc == incrementOperationErrorCount(tracer, errorAdds, ctx, err, pgxOperationBatch)
            rec == IsRecording(spans, SpanFromContext(ctx))
        IN  /\ errorAdds' = inc.out
            /\ calls' = [calls EXCEPT ![c] =
                            [@ EXCEPT !.itemErrs = Append(@, err),
                                      !.items = @ + 1,
                                      !.pc = IF inc.panic THEN "panicked"
                                             ELSE IF rec THEN "item_build" ELSE "inflight",
                                      !.data = IF ~inc.panic /\ rec
                                               THEN [NoData EXCEPT !.Conn = calls[c].conn,
                                                                   !.SQL = sql, !.Args = args]
                                               ELSE NoData]]
    /\ UNCHANGED <<statsVars, named, now, options, tracer, meter, handled, spans, durationSamples, attrPool, optsPool>>

ItemBuild(c) ==
    /\ calls[c].pc = "item_build"
    /\ HookBuild(c, "batch_query", "item_span")

\* The rest of TraceBatchQuery, as a bug would have it: the context tracer.Start
\* returns is kept as the batch's context
ItemSpanRebindsContext(c) ==
    /\ calls[c].pc = "item_span"
    /\ LET err == calls[c].itemErrs[Len(calls[c].itemErrs)]
           sp1 == TracerStart(spans, calls[c].ctx, calls[c].name, OptionsKind(c),
                              OptionsAttrs(c), c, "batch_query")
           span == Len(sp1)
       IN  spans' = SpanEnd(recordSpanError(sp1, span, err), span)
    /\ attrPool' = PoolPut(attrPool, calls[c].attrsP)
    /\ optsPool' = PoolPut(optsPool, calls[c].optsP)
    /\ calls' = [calls EXCEPT ![c] =
                    [@ EXCEPT !.pc = "inflight", !.data = NoData,
                              !.ctx = ContextWithSpan(@, Len(spans) + 1),
                              !.attrsP = 0, !.optsP = 0, !.name = <<>>]]
    /\ UNCHANGED <<statsVars, named, now, options, tracer, meter, handled, durationSamples, errorAdds>>

\* The rest of TraceBatchQuery: the item's span is started, takes the
\* item's error and is ended; the buffers go back.
ItemSpan(c) ==
    /\ calls[c].pc = "item_span"
    /\ LET err == calls[c].itemErrs[Len(calls[c].itemErrs)]
           sp1 == TracerStart(spans, calls[c].ctx, calls[c].name, OptionsKind(c),
                              OptionsAttrs(c), c, "batch_query")
           span == Len(sp1)
       IN  spans' = SpanEnd(recordSpanError(sp1, span, err), span)
    /\ attrPool' = PoolPut(attrPool, calls[c].attrsP)
    /\ optsPool' = PoolPut(optsPool, calls[c].optsP)
    /\ calls' = [calls EXCEPT ![c] =
                    [@ EXCEPT !.pc = "inflight", !.data = NoData,
                              !.attrsP = 0, !.optsP = 0, !.name = <<>>]]
    /\ UNCHANGED <<statsVars, named, now, options, tracer, meter, handled, durationSamples, errorAdds>>

\* An end hook, as a bug would have it: span.End() is left out
EndHookSkipsSpanEnd(c, kind, err, setsRows) ==
    /\ calls[c].pc = "inflight"
    /\ calls[c].kind = kind
    /\ LET ctx == calls[c].ctx
           span == SpanFromContext(ctx)
           sp1 == recordSpanError(spans, span, err)
           inc == incrementOperationErrorCount(tracer, errorAdds, ctx, err, kind)
           sp2 == IF setsRows /\ err = NilErr
                  THEN SpanSetAttributes(sp1, span, <<<<RowsAffectedKey, RowsAffected>>>>)
                  ELSE sp1
           dur == recordOperationDuration(tracer, durationSamples, ctx, kind)
       IN  /\ errorAdds' = inc.out
           /\ spans' = IF inc.panic THEN sp1 ELSE sp2
           /\ durationSamples' = IF inc.panic THEN durationSamples ELSE dur.out
           /\ calls' = [calls EXCEPT ![c] =
                           [@ EXCEPT !.err = err,
                                     !.pc = IF inc.panic \/ dur.panic
                                            THEN "panicked" ELSE "ended"]]
    /\ UNCHANGED <<statsVars, named, now, options, tracer, meter, handled, attrPool, optsPool>>

\* An end hook, as a bug would have it: the rows affected are set after
\* span.End(), and for every error
EndHookRowsAfterEnd(c, kind, err, setsRows) ==
    /\ calls[c].pc = "inflight"
    /\ calls[c].kind = kind
    /\ LET ctx == calls[c].ctx
           span == SpanFromContext(ctx)
           sp1 == recordSpanError(spans, span, err)
           inc == incrementOperationErrorCount(tracer, errorAdds, ctx, err, kind)
           sp2 == SpanEnd(sp1, span)
           sp3 == IF setsRows
                  THEN SpanSetAttributes(sp2, span, <<<<RowsAffectedKey, RowsAffected>>>>)
                  ELSE sp2
           dur == recordOperationDuration(tracer, durationSamples, ctx, kind)
       IN  /\ errorAdds' = inc.out
           /\ spans' = IF inc.panic THEN sp1 ELSE sp3
           /\ durationSamples' = IF inc.panic THEN durationSamples ELSE dur.out
           /\ calls' = [calls EXCEPT ![c] =
                           [@ EXCEPT !.err = err,
                                     !.pc = IF inc.panic \/ dur.panic
                                            THEN "panicked" ELSE "ended"]]
    /\ UNCHANGED <<statsVars, named, now, options, tracer, meter, handled, attrPool, optsPool>>

\* An end hook, as a bug would have it: with the span of the context, the
\* span it was started under is ended
EndHookEndsParent(c, kind, err, setsRows) ==
    /\ calls[c].pc = "inflight"
    /\ calls[c].kind = kind
    /\ LET ctx == calls[c].ctx
           span == SpanFromContext(ctx)
           sp1 == recordSpanError(spans, span, err)
           inc == incrementOperationErrorCount(tracer, errorAdds, ctx, err, kind)
           sp2 == IF setsRows /\ err = NilErr
                  THEN SpanSetAttributes(sp1, span, <<<<RowsAffectedKey, RowsAffected>>>>)
                  ELSE sp1
           sp3 == SpanEnd(SpanEnd(sp2, span), IF span = NoSpan THEN NoSpan ELSE sp2[span].parent)
           dur == recordOperationDuration(tracer, durationSamples, ctx, kind)
       IN  /\ errorAdds' = inc.out
           /\ spans' = IF inc.panic THEN sp1 ELSE sp3
           /\ durationSamples' = IF inc.panic THEN durationSamples ELSE dur.out
           /\ calls' = [calls EXCEPT ![c] =
                           [@ EXCEPT !.err = err,
                                     !.pc = IF inc.panic \/ dur.panic
                                            THEN "panicked" ELSE "ended"]]
    /\ UNCHANGED <<statsVars, named, now, options, tracer, meter, handled, attrPool, optsPool>>

\* An end hook: the span of the context takes the error, the error counter
\* is incremented, the query and copy hooks set the rows affected, the span
\* is ended and the duration recorded.  A panic leaves the hook where it
\* happens.
EndHook(c, kind, err, setsRows) ==
    /\ calls[c].pc = "inflight"
    /\ calls[c].kind = kind
    /\ LET ctx == calls[c].ctx
           span == SpanFromContext(ctx)
           sp1 == recordSpanError(spans, span, err)
           inc == incrementOperationErrorCount(tracer, errorAdds, ctx, err, kind)
           sp2 == IF setsRows /\ err = NilErr
                  THEN SpanSetAttributes(sp1, span, <<<<RowsAffectedKey, RowsAffected>>>>)
                  ELSE sp1
           sp3 == SpanEnd(sp2, span)
           dur == recordOperationDuration(tracer, durationSamples, ctx, kind)
       IN  /\ errorAdds' = inc.out
           /\ spans' = IF inc.panic THEN sp1 ELSE sp3
           /\ durationSamples' = IF inc.panic THEN durationSamples ELSE dur.out
           /\ calls' = [calls EXCEPT ![c] =
                           [@ EXCEPT !.err = err,
                                     !.pc = IF inc.panic \/ dur.panic
                                            THEN "panicked" ELSE "ended"]]
    /\ UNCHANGED <<statsVars, named, now, options, tracer, meter, handled, attrPool, optsPool>>

TraceQueryEnd(c, in) == \E err \in in.errs : EndHook(c, pgxOperationQuery, err, TRUE)

TraceCopyFromEnd(c, in) == \E err \in in.errs : EndHook(c, pgxOperationCopy, err, TRUE)

TraceBatchEnd(c, in) == \E err \in in.errs : EndHook(c, pgxOperationBatch, err, FALSE)

TraceConnectEnd(c, in) == \E err \in in.errs : EndHook(c, pgxOperationConnect, err, FALSE)

TracePrepareEnd(c, in) == \E err \in in.errs : EndHook(c, pgxOperationPrepare, err, FALSE)

TraceAcquireEnd(c, in) == \E err \in in.errs : EndHook(c, pgxOperationAcquire, err, FALSE)

MaxRepeatedEnds == 2
MaxNamingCalls == 2

\* The end hook of a call's kind, invoked once more with the context the
\* call's start hook returned, after the call's end hook has returned.
EndHookAgain(c, err) ==
    /\ calls[c].pc = "ended"
    /\ Cardinality({i \in 1..Len(durationSamples) : durationSamples[i].ctx.req = c})
          <= MaxRepeatedEnds
    /\ LET ctx == calls[c].ctx
           kind == calls[c].kind
           span == SpanFromContext(ctx)
           sp1 == recordSpanError(spans, span, err)
           inc == incrementOperationErrorCount(tracer, errorAdds, ctx, err, kind)
           sp2 == IF kind \in {pgxOperationQuery, pgxOperationCopy} /\ err = NilErr
                  THEN SpanSetAttributes(sp1, span, <<<<RowsAffectedKey, RowsAffected>>>>)
                  ELSE sp1
           sp3 == SpanEnd(sp2, span)
           dur == recordOperationDuration(tracer, durationSamples, ctx, kind)
       IN  /\ errorAdds' = inc.out
           /\ spans' = IF inc.panic THEN sp1 ELSE sp3
           /\ durationSamples' = IF inc.panic THEN durationSamples ELSE dur.out
           /\ calls' = IF inc.panic \/ dur.panic
                       THEN [calls EXCEPT ![c].pc = "panicked"]
                       ELSE calls
    /\ UNCHANGED <<statsVars, named, now, options, tracer, meter, handled, attrPool, optsPool>>

\* An end hook called with a context no start hook has run on: the caller's
\* context, without start time, and with the caller's span if it has one.
UnmatchedEndHook(c, in) ==
    /\ calls[c].pc = "idle"
    /\ \A d \in 1..(c - 1) : calls[d].pc # "idle"
    /\ \E kind \in OperationKinds, ambient \in in.ambients, err \in in.errs :
        LET ctx == CallerContext(c, ambient)
            span == SpanFromContext(ctx)
            sp1 == recordSpanError(spans, span, err)
            inc == incrementOperationErrorCount(tracer, errorAdds, ctx, err, kind)
            sp2 == IF kind \in {pgxOperationQuery, pgxOperationCopy} /\ err = NilErr
                   THEN SpanSetAttributes(sp1, span, <<<<RowsAffectedKey, RowsAffected>>>>)
                   ELSE sp1
            sp3 == SpanEnd(sp2, span)
            dur == recordOperationDuration(tracer, durationSamples, ctx, kind)
        IN  /\ errorAdds' = inc.out
            /\ spans' = IF inc.panic THEN sp1 ELSE sp3
            /\ durationSamples' = IF inc.panic THEN durationSamples ELSE dur.out
            /\ calls' = [calls EXCEPT ![c] =
                            [@ EXCEPT !.kind = kind, !.ambient = ambient, !.ctx = ctx,
                                      !.err = err,
                                      !.pc = IF inc.panic \/ dur.panic
                                             THEN "panicked" ELSE "ended"]]
    /\ UNCHANGED <<statsVars, named, now, options, tracer, meter, handled, attrPool, optsPool>>

\* Time passes.
Tick ==
    /\ now + TickMicros <= MaxTicks * TickMicros
    /\ now' = now + TickMicros
    /\ UNCHANGED <<hookVars, statsVars, named>>

---------------------------------------------------------------------------
(* The pool statistics sampler: recordStats and the callback it registers. *)

MaxInvocations == 3
MaxPoolChanges == 2
MaxStatsTicks == 3
StatsTickMicros == 500000

Invocations == 1..MaxInvocations

\* time.Second, the default of RecordStats
defaultMinimumReadDBStatsInterval == 1000000

\* The StatsOptions.  Each stores what it is given.
WithStatsMeterProvider(provider) ==
    [opt |-> "WithStatsMeterProvider", provider |-> provider, attrs |-> <<>>,
     interval |-> 0]

WithStatsAttributes(attrs) ==
    [opt |-> "WithStatsAttributes", provider |-> NilProvider, attrs |-> attrs,
     interval |-> 0]

WithMinimumReadDBStatsInterval(interval) ==
    [opt |-> "WithMinimumReadDBStatsInterval", provider |-> NilProvider, attrs |-> <<>>,
     interval |-> interval]

\* The statsOptions RecordStats starts from
defaultStatsOptions ==
    [meterProvider |-> GlobalProvider,
     minimumReadDBStatsInterval |-> defaultMinimumReadDBStatsInterval,
     defaultAttributes |-> <<DBSystemPostgreSQL>>]

applyStatsOptions(o, opt) ==
    CASE opt.opt = "WithStatsMeterProvider" -> [o EXCEPT !.meterProvider = opt.provider]
      [] opt.opt = "WithStatsAttributes" ->
             [o EXCEPT !.defaultAttributes = @ \o opt.attrs]
      [] opt.opt = "WithMinimumReadDBStatsInterval" ->
             [o EXCEPT !.minimumReadDBStatsInterval = opt.interval]

RECURSIVE ApplyStatsOptions(_, _)
ApplyStatsOptions(o, opts) ==
    IF opts = <<>> THEN o
    ELSE ApplyStatsOptions(applyStatsOptions(o, Head(opts)), Tail(opts))

\* The option lists RecordStats is called with.
StatsOptionLists ==
    {<<>>,
     <<WithMinimumReadDBStatsInterval(0)>>,
     <<WithMinimumReadDBStatsInterval(-defaultMinimumReadDBStatsInterval)>>,
     <<WithStatsMeterProvider(GivenProvider), WithStatsAttributes(<<ExtraAttr>>)>>,
     <<WithStatsMeterProvider(NilProvider)>>}

\* The instruments in the order recordStats creates them, and the
\* constructors it uses.
InstrumentNames ==
    <<"pgxpool.acquires", "pgxpool.acquire_duration", "pgxpool.acquired_connections",
      "pgxpool.canceled_acquires", "pgxpool.constructing_connections",
      "pgxpool.empty_acquire", "pgxpool.idle_connections", "pgxpool.max_connections",
      "pgxpool.max_idle_destroys", "pgxpool.max_lifetime_destroys",
      "pgxpool.new_connections", "pgxpool.total_connections">>

InstrumentKinds ==
    <<"Int64ObservableCounter", "Int64ObservableCounter", "Int64ObservableUpDownCounter",
      "Int64ObservableCounter", "Int64ObservableUpDownCounter",
      "Int64ObservableCounter", "Int64ObservableUpDownCounter", "Int64ObservableGauge",
      "Int64ObservableCounter", "Int64ObservableCounter",
      "Int64ObservableCounter", "Int64ObservableUpDownCounter">>

InstrumentCount == Len(InstrumentNames)

\* time.Time: the zero value, and the readings of the clock.
ZeroTime == [isZero |-> TRUE, us |-> 0]
TimeNow == [isZero |-> FALSE, us |-> now]

\* t.Sub(u), as a bug would have it: the zero time is the time the program
\* started at
TimeSubFromStart(t, u) == [saturated |-> FALSE, us |-> t.us - u.us]

\* t.Sub(u).  The zero time lies so far back that the difference saturates
\* at the largest Duration.
TimeSub(t, u) ==
    IF u.isZero /\ ~t.isZero
    THEN [saturated |-> TRUE, us |-> 0]
    ELSE [saturated |-> FALSE, us |-> t.us - u.us]

\* d >= interval, for an interval below the largest Duration
DurationAtLeast(d, interval) == d.saturated \/ d.us >= interval

\* time.Duration.Nanoseconds, of a duration in microseconds
Nanoseconds(d) == d * 1000

\* *pgxpool.Stat: the nil pointer recordStats starts with, and what
\* db.Stat() returns, a copy of the pool's counters of that moment.
NilStat ==
    [isNil |-> TRUE, AcquireCount |-> 0, AcquireDuration |-> 0, AcquiredConns |-> 0,
     CanceledAcquireCount |-> 0, ConstructingConns |-> 0, EmptyAcquireCount |-> 0,
     IdleConns |-> 0, MaxConns |-> 0, MaxIdleDestroyCount |-> 0,
     MaxLifetimeDestroyCount |-> 0, NewConnsCount |-> 0, TotalConns |-> 0]

PoolMaxConns == 4

FreshPool == [NilStat EXCEPT !.isNil = FALSE, !.MaxConns = PoolMaxConns]

dbStat == dbPool

\* The value the k-th ObserveInt64 call of the callback passes.
ObservedValue(stat, k) ==
    CASE k = 1 -> stat.AcquireCount
      [] k = 2 -> Nanoseconds(stat.AcquireDuration)
      [] k = 3 -> stat.AcquiredConns
      [] k = 4 -> stat.CanceledAcquireCount
      [] k = 5 -> stat.ConstructingConns
      [] k = 6 -> stat.EmptyAcquireCount
      [] k = 7 -> stat.IdleConns
      [] k = 8 -> stat.MaxConns
      [] k = 9 -> stat.MaxIdleDestroyCount
      [] k = 10 -> stat.MaxLifetimeDestroyCount
      [] k = 11 -> stat.NewConnsCount
      [] k = 12 -> stat.TotalConns

\* Holders of the mutex.
Unlocked == 0
SetupHolder == MaxInvocations + 1

\* What the meter answers to the creation of an instrument or to
\* RegisterCallback.
StatsMeterAnswers(what) == {NilErr, <<ErrLayer("metric.error", <<what>>, "")>>}

\* fmt.Errorf("failed to create asynchronous metric: %s with error: %w", name, err)
CreateError(name, err) ==
    <<ErrLayer("fmt.wrapError",
               <<"failed to create asynchronous metric: ", name, " with error: ">>
               \o err[1].msg, "")>> \o err

\* serverAddress, serverPort, dbNamespace and the pool name made of them
PoolName(config) == <<config.Host, ":", config.Port, "/", config.Database>>

\* attrs with the two appended attributes, of which metric.WithAttributes
\* makes an attribute set
StatsAttrs(attrs, config) ==
    attrs \o <<DBSystemPostgreSQL,
               <<"db.client.connection.pool.name", PoolName(config)>>>>

IdleInvocation == [pc |-> "idle", now |-> ZeroTime]

\* RecordStats up to the first statement of recordStats past lock.Lock().
\* o.meterProvider.Meter(...) is a method call on the provider the options
\* left: on the nil interface it panics, and recordStats is not reached.
RecordStatsEntered(optionLists) ==
    /\ \E opts \in optionLists :
          LET o == ApplyStatsOptions(defaultStatsOptions, opts)
              nilProvider == o.meterProvider = NilProvider
          IN  /\ lock = IF nilProvider THEN Unlocked ELSE SetupHolder
              /\ setup = [pc |-> IF nilProvider THEN "panicked" ELSE "create",
                          next |-> 1, err |-> NilErr, opts |-> opts]
              /\ sampler = [meter |-> o.meterProvider,
                            minimumReadDBStatsInterval |-> o.minimumReadDBStatsInterval,
                            dbStats |-> NilStat, lastDBStats |-> ZeroTime,
                            observeOptions |-> {}, attrs |-> o.defaultAttributes]
    /\ backend = [asked |-> <<>>, instruments |-> <<>>, callbacks |-> 0,
                  bound |-> <<>>]
    /\ dbPool = FreshPool
    /\ inv = [i \in Invocations |-> IdleInvocation]
    /\ checks = <<>>
    /\ observations = [i \in Invocations |-> <<>>]

\* RecordStats was not called.
StatsNotStarted ==
    /\ lock = Unlocked
    /\ setup = [pc |-> "not_called", next |-> 1, err |-> NilErr, opts |-> <<>>]
    /\ backend = [asked |-> <<>>, instruments |-> <<>>, callbacks |-> 0,
                  bound |-> <<>>]
    /\ sampler = [meter |-> GlobalProvider,
                  minimumReadDBStatsInterval |-> defaultMinimumReadDBStatsInterval,
                  dbStats |-> NilStat, lastDBStats |-> ZeroTime,
                  observeOptions |-> {}, attrs |-> <<DBSystemPostgreSQL>>]
    /\ dbPool = FreshPool
    /\ inv = [i \in Invocations |-> IdleInvocation]
    /\ checks = <<>>
    /\ observations = [i \in Invocations |-> <<>>]

\* The creation of an instrument, as a bug would have it: the failure is
\* kept and the setup goes on
CreateInstrumentGoesOn ==
    /\ setup.pc = "create"
    /\ LET name == InstrumentNames[setup.next]
       IN  \E err \in StatsMeterAnswers(name) :
             /\ backend' = [backend EXCEPT
                               !.asked = Append(@, name),
                               !.instruments = IF err = NilErr THEN Append(@, name) ELSE @]
             /\ setup' = [setup EXCEPT
                             !.err = IF err = NilErr THEN @ ELSE CreateError(name, err),
                             !.next = IF setup.next = InstrumentCount THEN @ ELSE @ + 1,
                             !.pc = IF setup.next = InstrumentCount
                                    THEN "register" ELSE "create"]
    /\ UNCHANGED <<now, named, hookVars, lock, sampler, dbPool, inv, checks, observations>>

\* One "if inst, err = meter.Int64Observable...(name, ...); err != nil
\* { return fmt.Errorf(...) }" of recordStats.
CreateInstrument ==
    /\ setup.pc = "create"
    /\ LET name == InstrumentNames[setup.next]
       IN  \E err \in StatsMeterAnswers(name) :
             /\ backend' = [backend EXCEPT
                               !.asked = Append(@, name),
                               !.instruments = IF err = NilErr THEN Append(@, name) ELSE @]
             /\ setup' =
                   IF err # NilErr
                   THEN [setup EXCEPT !.err = CreateError(name, err), !.pc = "return"]
                   ELSE [setup EXCEPT
                            !.next = IF setup.next = InstrumentCount THEN @ ELSE @ + 1,
                            !.pc = IF setup.next = InstrumentCount
                                   THEN "register" ELSE "create"]
    /\ UNCHANGED <<now, named, hookVars, lock, sampler, dbPool, inv, checks, observations>>

\* The registration, as a bug would have it: the two attributes replace
\* the ones passed in instead of being appended to them
RegisterCallbackReplacesAttrs ==
    /\ setup.pc = "register"
    /\ \E err \in StatsMeterAnswers("RegisterCallback") :
          /\ backend' = [backend EXCEPT
                            !.callbacks = IF err = NilErr THEN @ + 1 ELSE @,
                            !.bound = IF err = NilErr THEN InstrumentNames ELSE @]
          /\ setup' = [setup EXCEPT !.err = err, !.pc = "return"]
    /\ sampler' = [sampler EXCEPT
                      !.attrs = StatsAttrs(<<>>, SomeConfig),
                      !.observeOptions = AttributeSet(StatsAttrs(<<>>, SomeConfig))]
    /\ UNCHANGED <<now, named, hookVars, lock, dbPool, inv, checks, observations>>

\* The attributes are completed and the callback is registered for the
\* twelve instruments, which are passed in the order of their creation; what
\* RegisterCallback answers is what recordStats returns.
RegisterCallback ==
    /\ setup.pc = "register"
    /\ \E err \in StatsMeterAnswers("RegisterCallback") :
          /\ backend' = [backend EXCEPT
                            !.callbacks = IF err = NilErr THEN @ + 1 ELSE @,
                            !.bound = IF err = NilErr THEN InstrumentNames ELSE @]
          /\ setup' = [setup EXCEPT !.err = err, !.pc = "return"]
    /\ sampler' = [sampler EXCEPT
                      !.attrs = StatsAttrs(@, SomeConfig),
                      !.observeOptions = AttributeSet(StatsAttrs(sampler.attrs, SomeConfig))]
    /\ UNCHANGED <<now, named, hookVars, lock, dbPool, inv, checks, observations>>

\* recordStats returns, as a bug would have it: the mutex is released on
\* success only
SetupReturnUnlocksOnSuccess ==
    /\ setup.pc = "return"
    /\ lock' = IF setup.err = NilErr THEN Unlocked ELSE lock
    /\ setup' = [setup EXCEPT !.pc = "returned"]
    /\ UNCHANGED <<now, named, hookVars, backend, sampler, dbPool, inv, checks, observations>>

\* recordStats returns: the deferred lock.Unlock()
SetupReturn ==
    /\ setup.pc = "return"
    /\ lock' = Unlocked
    /\ setup' = [setup EXCEPT !.pc = "returned"]
    /\ UNCHANGED <<now, named, hookVars, backend, sampler, dbPool, inv, checks, observations>>

\* The metrics backend invokes the registered callback; the invocation
\* stands before lock.Lock().
CallbackEnter(i) ==
    /\ backend.callbacks > 0
    /\ inv[i].pc = "idle"
    /\ \A j \in 1..(i - 1) : inv[j].pc # "idle"
    /\ inv' = [inv EXCEPT ![i].pc = "lock"]
    /\ UNCHANGED <<now, named, hookVars, lock, setup, backend, sampler, dbPool, checks,
                   observations>>

\* lock.Lock(), as a bug would have it: the callback does not wait for the
\* mutex
CallbackLockNoWait(i) ==
    /\ inv[i].pc = "lock"
    /\ lock' = i
    /\ inv' = [inv EXCEPT ![i].pc = "refresh"]
    /\ UNCHANGED <<now, named, hookVars, setup, backend, sampler, dbPool, checks, observations>>

\* lock.Lock() of the callback
CallbackLock(i) ==
    /\ inv[i].pc = "lock"
    /\ lock = Unlocked
    /\ lock' = i
    /\ inv' = [inv EXCEPT ![i].pc = "refresh"]
    /\ UNCHANGED <<now, named, hookVars, setup, backend, sampler, dbPool, checks, observations>>

\* The interval test, as a bug would have it: > for >=
CallbackRefreshStrict(i) ==
    /\ inv[i].pc = "refresh"
    /\ LET t == TimeNow
           d == TimeSub(t, sampler.lastDBStats)
           read == d.saturated \/ d.us > sampler.minimumReadDBStatsInterval
       IN  /\ sampler' = IF read
                         THEN [sampler EXCEPT !.dbStats = dbStat, !.lastDBStats = t]
                         ELSE sampler
           /\ checks' = Append(checks, [by |-> i, at |-> t, read |-> read,
                                        stat |-> IF read THEN dbStat ELSE NilStat])
           /\ inv' = [inv EXCEPT ![i] = [pc |-> "observe", now |-> t]]
    /\ UNCHANGED <<now, named, hookVars, lock, setup, backend, dbPool, observations>>

\* The refresh, as a bug would have it: the snapshot is replaced and the
\* time of the read is not stored
CallbackRefreshKeepsTimestamp(i) ==
    /\ inv[i].pc = "refresh"
    /\ LET t == TimeNow
           read == DurationAtLeast(TimeSub(t, sampler.lastDBStats),
                                   sampler.minimumReadDBStatsInterval)
       IN  /\ sampler' = IF read
                         THEN [sampler EXCEPT !.dbStats = dbStat]
                         ELSE sampler
           /\ checks' = Append(checks, [by |-> i, at |-> t, read |-> read,
                                        stat |-> IF read THEN dbStat ELSE NilStat])
           /\ inv' = [inv EXCEPT ![i] = [pc |-> "observe", now |-> t]]
    /\ UNCHANGED <<now, named, hookVars, lock, setup, backend, dbPool, observations>>

\* now := time.Now(); if now.Sub(lastDBStats) >= minimumReadDBStatsInterval
\* { dbStats = db.Stat(); lastDBStats = now }
CallbackRefresh(i) ==
    /\ inv[i].pc = "refresh"
    /\ LET t == TimeNow
           read == DurationAtLeast(TimeSub(t, sampler.lastDBStats),
                                   sampler.minimumReadDBStatsInterval)
       IN  /\ sampler' = IF read
                         THEN [sampler EXCEPT !.dbStats = dbStat, !.lastDBStats = t]
                         ELSE sampler
           /\ checks' = Append(checks, [by |-> i, at |-> t, read |-> read,
                                        stat |-> IF read THEN dbStat ELSE NilStat])
           /\ inv' = [inv EXCEPT ![i] = [pc |-> "observe", now |-> t]]
    /\ UNCHANGED <<now, named, hookVars, lock, setup, backend, dbPool, observations>>

\* An observation, as a bug would have it: the value is read from the pool
\* at each observation
CallbackObserveReadsPool(i) ==
    /\ inv[i].pc = "observe"
    /\ Len(observations[i]) < InstrumentCount
    /\ LET k == Len(observations[i]) + 1
       IN  observations' =
              [observations EXCEPT ![i] =
                  Append(@, [instrument |-> InstrumentNames[k],
                             value |-> ObservedValue(dbStat, k),
                             attrs |-> sampler.observeOptions])]
    /\ UNCHANGED <<now, named, hookVars, lock, setup, backend, sampler, dbPool, inv, checks>>

\* An observation, as a bug would have it: the last observation is made on
\* the instrument of the one before
CallbackObserveRepeatsInstrument(i) ==
    /\ inv[i].pc = "observe"
    /\ Len(observations[i]) < InstrumentCount
    /\ LET k == Len(observations[i]) + 1
           inst == IF k = InstrumentCount THEN k - 1 ELSE k
       IN  IF sampler.dbStats.isNil
           THEN /\ inv' = [inv EXCEPT ![i].pc = "panicked"]
                /\ lock' = Unlocked
                /\ UNCHANGED observations
           ELSE /\ observations' =
                      [observations EXCEPT ![i] =
                          Append(@, [instrument |-> InstrumentNames[inst],
                                     value |-> ObservedValue(sampler.dbStats, k),
                                     attrs |-> sampler.observeOptions])]
                /\ UNCHANGED <<inv, lock>>
    /\ UNCHANGED <<now, named, hookVars, setup, backend, sampler, dbPool, checks>>

\* The next of the twelve o.ObserveInt64 calls; an accessor called on the
\* nil *pgxpool.Stat panics, and the deferred Unlock runs.
CallbackObserve(i) ==
    /\ inv[i].pc = "observe"
    /\ Len(observations[i]) < InstrumentCount
    /\ LET k == Len(observations[i]) + 1
       IN  IF sampler.dbStats.isNil
           THEN /\ inv' = [inv EXCEPT ![i].pc = "panicked"]
                /\ lock' = Unlocked
                /\ UNCHANGED observations
           ELSE /\ observations' =
                      [observations EXCEPT ![i] =
                          Append(@, [instrument |-> InstrumentNames[k],
                                     value |-> ObservedValue(sampler.dbStats, k),
                                     attrs |-> sampler.observeOptions])]
                /\ UNCHANGED <<inv, lock>>
    /\ UNCHANGED <<now, named, hookVars, setup, backend, sampler, dbPool, checks>>

\* return nil: the deferred lock.Unlock()
CallbackReturn(i) ==
    /\ inv[i].pc = "observe"
    /\ Len(observations[i]) = InstrumentCount
    /\ lock' = Unlocked
    /\ inv' = [inv EXCEPT ![i].pc = "done"]
    /\ UNCHANGED <<now, named, hookVars, setup, backend, sampler, dbPool, checks, observations>>

\* The application uses the pool meanwhile: an acquire that finds the pool
\* empty and constructs a connection.
PoolActivity ==
    /\ dbPool.AcquireCount < MaxPoolChanges
    /\ dbPool' = [dbPool EXCEPT !.AcquireCount = @ + 1, !.AcquireDuration = @ + 250,
                            !.AcquiredConns = @ + 1, !.EmptyAcquireCount = @ + 1,
                            !.NewConnsCount = @ + 1, !.TotalConns = @ + 1]
    /\ UNCHANGED <<now, named, hookVars, lock, setup, backend, sampler, inv, checks,
                   observations>>

\* Time passes between the collections of the metrics backend.
Elapse ==
    /\ now + StatsTickMicros <= MaxStatsTicks * StatsTickMicros
    /\ now' = now + StatsTickMicros
    /\ UNCHANGED <<hookVars, statsVars, named>>

---------------------------------------------------------------------------

\* What the driver and the callers hand to the hooks of one behaviour.
FullInputs ==
    [calls |-> {1}, errs |-> DriverErrors, itemErrs |-> ItemErrors,
     ambients |-> AmbientChoices,
     conns |-> ConnChoices, stmts |-> Statements, batchNil |-> BOOLEAN]

ConcurrentInputs ==
    [calls |-> Calls, batches |-> {MaxCalls},
     errs |-> {NilErr, ctxCanceled}, itemErrs |-> {ctxCanceled},
     ambients |-> {AmbientRecording, AmbientNotRecording},
     conns |-> {SomeConfig}, stmts |-> Statements, batchNil |-> {FALSE}]

InitHooks(optionLists, histAnswers, cntAnswers) ==
    /\ now = 0
    /\ \E opts \in optionLists, hist \in histAnswers, cnt \in cntAnswers :
          LET r == NewTracer(opts, hist, cnt)
          IN  /\ options = opts
              /\ tracer = r.tracer
              /\ handled = r.handled
              /\ meter = [operationDuration |-> hist, operationErrors |-> cnt]
    /\ named = <<>>
    /\ calls = [c \in Calls |-> IdleCall]
    /\ spans = AmbientSpans
    /\ durationSamples = <<>>
    /\ errorAdds = <<>>
    /\ attrPool = EmptyPool
    /\ optsPool = EmptyPool

NextHooks(in) ==
    \/ Tick
    \/ \E c \in in.calls :
        \/ TraceQueryStart(c, in) \/ TraceQueryEnd(c, in)
        \/ TraceCopyFromStart(c, in) \/ TraceCopyFromEnd(c, in)
        \/ TraceBatchStart(c, in) \/ TraceBatchQuery(c, in) \/ TraceBatchEnd(c, in)
        \/ TraceConnectStart(c, in) \/ TraceConnectEnd(c, in)
        \/ TracePrepareStart(c, in) \/ TracePrepareEnd(c, in)
        \/ TraceAcquireStart(c, in) \/ TraceAcquireEnd(c, in)
        \/ StartBuild(c) \/ StartSpan(c) \/ ItemBuild(c) \/ ItemSpan(c)

\* One database call, every input.
Init ==
    /\ InitHooks({<<>>},
                 MeterAnswers("db.client.operation.duration"),
                 MeterAnswers(DBClientOperationErrorsKey))
    /\ StatsNotStarted

Next == NextHooks(FullInputs)

Spec == Init /\ [][Next]_vars

\* Calls whose hooks interleave: queries, and a batch with its items as the
\* later of the calls.
InitConcurrent ==
    /\ InitHooks({<<>>},
                 {[inst |-> "instrument", err |-> NilErr]},
                 {[inst |-> "instrument", err |-> NilErr]})
    /\ StatsNotStarted

NextConcurrent ==
    \/ Tick
    \/ \E c \in ConcurrentInputs.calls :
        \/ TraceQueryStart(c, ConcurrentInputs) \/ TraceQueryEnd(c, ConcurrentInputs)
        \/ StartBuild(c) \/ StartSpan(c) \/ ItemBuild(c) \/ ItemSpan(c)
    \/ \E c \in ConcurrentInputs.batches :
        \/ TraceBatchStart(c, ConcurrentInputs) \/ TraceBatchQuery(c, ConcurrentInputs)
        \/ TraceBatchEnd(c, ConcurrentInputs)

SpecConcurrent == InitConcurrent /\ [][NextConcurrent]_vars

\* The statements handed to the naming policies.  A comment line is a
\* marker, a body and, for the slash-star marker, possibly the closing token.
\* The bodies: two well formed, one with a token too many, eight malformed
\* (one token, no token, no colon, wrong spacing), none, an ordinary comment.
Body ==
    [ok |-> <<" ", "n", "a", "m", "e", ":", " ", "G", "e", "t", " ", ":", "m">>,
     ok2 |-> <<" ", "n", "a", "m", "e", ":", " ", "L", "i", "s", "t", "A", "l", "l", " ", ":", "o", "n", "e">>,
     extra |-> <<" ", "n", "a", "m", "e", ":", " ", "G", "e", "t", " ", ":", "m", " ", "x">>,
     one |-> <<" ", "n", "a", "m", "e", ":", " ", "G", "e", "t">>,
     none |-> <<" ", "n", "a", "m", "e", ":", " ">>,
     nocolon |-> <<" ", "n", "a", "m", "e", " ", "G", "e", "t", " ", ":", "m">>,
     nospace |-> <<"n", "a", "m", "e", ":", " ", "G", "e", "t", " ", ":", "m">>,
     spacecolon |-> <<" ", "n", "a", "m", "e", " ", ":", " ", "G", "e", "t", " ", ":", "m">>,
     nogap |-> <<" ", "n", "a", "m", "e", ":", "G", "e", "t", " ", ":", "m">>,
     twobefore |-> <<" ", " ", "n", "a", "m", "e", ":", " ", "G", "e", "t", " ", ":", "m">>,
     twoafter |-> <<" ", "n", "a", "m", "e", ":", " ", " ", "G", "e", "t", " ", ":", "m">>,
     empty |-> <<>>,
     comment |-> <<" ", "f", "o", "o", " ">>]

WellFormedBodies == {Body.ok, Body.ok2}
MalformedBodies == {Body.one, Body.none, Body.nocolon, Body.nospace, Body.spacecolon,
                    Body.nogap, Body.twobefore, Body.twoafter}

Markers == {Marker.dash, Marker.slashStar, Marker.hash}

\* A comment line; closed, it ends with the token "*/" set off by one space.
CommentLine(m, body, closed) ==
    m \o body
      \o (IF ~closed THEN <<>>
          ELSE (IF body # <<>> /\ body[Len(body)] = " " THEN <<>> ELSE <<" ">>)
               \o <<"*", "/">>)

\* Slash-star comments come closed and unclosed, the other two have no
\* closing token.
CommentLines(bodies) ==
    {CommentLine(m, b, TRUE) : m \in {Marker.slashStar}, b \in bodies}
    \cup {CommentLine(m, b, FALSE) : m \in Markers, b \in bodies}

Stmt ==
    [select |-> <<"s", "e", "l", "e", "c", "t", " ", "1">>,
     foo |-> <<"f", "o", "o", " ">>,
     update |-> <<"U", "P", "D", "A", "T", "E", "\n", "\t", "f", "o", "o">>,
     padded |-> <<" ", "\n", " ", "s", "e", "l", "e", "c", "t", "\n", "\t", " ", " ", " ", "*", " ", " ">>,
     blank |-> <<" ", "\n", "\t">>,
     accented |-> <<"U+00A0", "s", "U+00E9", "l", "e", "c", "t", "\f", "1">>,
     tabbed |-> <<"U+000B", "U+017F", "e", "U+03C4", "U+2003", "x">>,
     empty |-> <<>>]

\* Statements without comment; one comment line and the SQL after it; and
\* a line without annotation, a comment line and the SQL.
NamingStatements ==
    {Stmt.select, Stmt.update, Stmt.padded, Stmt.blank, Stmt.empty, <<" ">>,
     Stmt.accented,
     Stmt.foo \o <<"\n">> \o Stmt.select}
    \cup {c \o <<"\n">> \o Stmt.select :
             c \in CommentLines(WellFormedBodies \cup MalformedBodies
                                \cup {Body.extra, Body.empty, Body.comment})}
    \cup {first \o <<"\n">> \o c \o <<"\n">> \o Stmt.select :
             first \in {CommentLine(Marker.dash, Body.empty, FALSE),
                        CommentLine(Marker.hash, Body.comment, FALSE), Stmt.select},
             c \in CommentLines(WellFormedBodies \cup MalformedBodies)}

\* tr.sqlOperationName(stmt), called from outside the hooks
NamingCall(stmts) ==
    /\ Len(named) < MaxNamingCalls
    /\ \E stmt \in stmts :
          named' = Append(named, [stmt |-> stmt, build |-> "go1.24",
                                  result |-> TracerSqlOperationName(tracer, stmt)])
    /\ UNCHANGED <<now, hookVars, statsVars>>

\* tr.sqlOperationName(stmt) of a build before Go 1.24, called from outside
\* the hooks
NamingCallPre124(stmts) ==
    /\ Len(named) < MaxNamingCalls
    /\ \E stmt \in stmts :
          named' = Append(named, [stmt |-> stmt, build |-> "!go1.24",
                                  result |-> sqlOperationNamePre124(tracer, stmt)])
    /\ UNCHANGED <<now, hookVars, statsVars>>

\* A Tracer with the default policy or the annotation-aware one, and calls of
\* its naming policy.
InitNaming ==
    /\ InitHooks({<<>>, <<"WithSpanNameFunc">>},
                 {[inst |-> "instrument", err |-> NilErr]},
                 {[inst |-> "instrument", err |-> NilErr]})
    /\ StatsNotStarted

NextNaming == NamingCall(NamingStatements)

SpecNaming == InitNaming /\ [][NextNaming]_vars

\* The same statements named by the two builds of the Tracer: every string
\* of at most MaxStmtLen characters out of a letter, the blank, the tab and
\* the newline, and longer statements with and without an annotation.
MaxStmtLen == 3

StmtAlphabet == {"s", " ", "\t", "\n"}

ShortStatements ==
    UNION {[1..n -> StmtAlphabet] : n \in 0..MaxStmtLen}

BuildStatements ==
    ShortStatements
    \cup {Stmt.select, Stmt.update, Stmt.padded, Stmt.blank, Stmt.accented, Stmt.tabbed,
          CommentLine(Marker.dash, Body.ok, FALSE) \o <<"\n">> \o Stmt.select}

NextNamingBuilds == NamingCall(BuildStatements) \/ NamingCallPre124(BuildStatements)

SpecNamingBuilds == InitNaming /\ [][NextNamingBuilds]_vars

\* tr.sqlOperationName(stmt) is entered from outside the hooks.  The call
\* has its argument, the t.spanNameFunc it read and, when that is the
\* annotation-aware function, the lines strings.Split made of the
\* statement, all of them its own.
NamingEnter(stmts) ==
    /\ Len(named) < MaxNamingCalls
    /\ \E stmt \in stmts :
          named' = Append(named,
                          [stmt |-> stmt, build |-> "go1.24", pc |-> "loop",
                           fn |-> tracer.spanNameFunc,
                           lines |-> IF tracer.spanNameFunc = AnnotationPolicy
                                     THEN Split(stmt, "\n") ELSE <<>>,
                           result |-> Returned(<<>>)])
    /\ UNCHANGED <<now, hookVars, statsVars>>

\* A pass of the loop of call n, as a bug would have it: the lines still to
\* visit are kept in one place for all calls, where the call that entered
\* last put its own
NamingLoopSharedLines(n) ==
    /\ n \in 1..Len(named)
    /\ named[n].pc = "loop"
    /\ LET f == named[n]
           k == Len(named)
           shared == named[k].lines
       IN  named' =
               IF f.fn # AnnotationPolicy
               THEN [named EXCEPT ![n] = [f EXCEPT !.pc = "done",
                                                   !.result = Returned(sqlOperationName(f.stmt))]]
               ELSE IF shared = <<>>
               THEN [named EXCEPT ![n] = [f EXCEPT !.pc = "done", !.lines = <<>>,
                                                   !.result = Returned(sqlOperationUnknown)]]
               ELSE LET taken == [named EXCEPT ![k].lines = Tail(@)]
                        pass == ScanLine(Head(shared))
                    IN  IF pass.continue THEN taken
                        ELSE [taken EXCEPT ![n] = [taken[n] EXCEPT !.pc = "done", !.lines = <<>>,
                                                                   !.result = pass.out]]
    /\ UNCHANGED <<now, hookVars, statsVars>>

\* Call n of tr.sqlOperationName goes on by one pass of its loop: with no
\* function configured the first field of strings.FieldsSeq returns its
\* upper case; the annotation-aware function visits the next of its lines,
\* and returns UNKNOWN behind the last.
NamingLoop(n) ==
    /\ n \in 1..Len(named)
    /\ named[n].pc = "loop"
    /\ LET f == named[n]
           pass == ScanLine(Head(f.lines))
       IN  named' =
               [named EXCEPT ![n] =
                   IF f.fn # AnnotationPolicy
                   THEN [f EXCEPT !.pc = "done",
                                  !.result = Returned(sqlOperationName(f.stmt))]
                   ELSE IF f.lines = <<>>
                   THEN [f EXCEPT !.pc = "done", !.result = Returned(sqlOperationUnknown)]
                   ELSE IF pass.continue THEN [f EXCEPT !.lines = Tail(@)]
                   ELSE [f EXCEPT !.pc = "done", !.lines = <<>>, !.result = pass.out]]
    /\ UNCHANGED <<now, hookVars, statsVars>>

\* Calls of the naming policy from outside while the hooks of one database
\* call run, the hooks calling the policy themselves.
InterleavedStatements ==
    {Stmt.select,
     CommentLine(Marker.dash, Body.empty, FALSE) \o <<"\n">>
        \o CommentLine(Marker.dash, Body.ok, FALSE) \o <<"\n">> \o Stmt.select,
     CommentLine(Marker.dash, Body.one, FALSE) \o <<"\n">> \o Stmt.select}

InterleavedInputs ==
    [calls |-> {1}, errs |-> {NilErr}, itemErrs |-> {NilErr},
     ambients |-> {AmbientRecording},
     conns |-> {SomeConfig}, stmts |-> InterleavedStatements, batchNil |-> {FALSE}]

InitNamingInterleaved ==
    /\ InitHooks({<<>>, <<"WithSpanNameFunc">>},
                 {[inst |-> "instrument", err |-> NilErr]},
                 {[inst |-> "instrument", err |-> NilErr]})
    /\ StatsNotStarted

\* The hooks that name a statement: query, batch with its items, prepare.
NextNamingInterleaved ==
    \/ NamingEnter(InterleavedStatements)
    \/ \E n \in 1..MaxNamingCalls : NamingLoop(n)
    \/ \E c \in InterleavedInputs.calls :
        \/ TraceQueryStart(c, InterleavedInputs) \/ TraceQueryEnd(c, InterleavedInputs)
        \/ TraceBatchStart(c, InterleavedInputs) \/ TraceBatchQuery(c, InterleavedInputs)
        \/ TraceBatchEnd(c, InterleavedInputs)
        \/ TracePrepareStart(c, InterleavedInputs) \/ TracePrepareEnd(c, InterleavedInputs)
        \/ StartBuild(c) \/ StartSpan(c) \/ ItemBuild(c) \/ ItemSpan(c)

SpecNamingInterleaved == InitNamingInterleaved /\ [][NextNamingInterleaved]_vars

\* One database call on a Tracer built with attribute switches, in either
\* order of the two statement options, or with span-name switches, under
\* either naming policy.
AttributeOptionLists ==
    {<<>>,
     <<"WithIncludeQueryParameters">>,
     <<"WithDisableSQLStatementInAttributes">>,
     <<"WithDisableSQLStatementInAttributes", "WithIncludeQueryParameters">>,
     <<"WithIncludeQueryParameters", "WithDisableSQLStatementInAttributes">>,
     <<"WithDisableConnectionDetailsInAttributes">>,
     <<"WithDisableConnectionDetailsInAttributes", "WithIncludeQueryParameters">>,
     <<"WithTrimSQLInSpanName">>,
     <<"WithDisableQuerySpanNamePrefix">>,
     <<"WithTrimSQLInSpanName", "WithDisableQuerySpanNamePrefix">>,
     <<"WithSpanNameFunc", "WithTrimSQLInSpanName">>,
     <<"WithSpanNameFunc", "WithDisableQuerySpanNamePrefix", "WithTrimSQLInSpanName">>}

OptionsInputs ==
    [calls |-> {1}, errs |-> {NilErr}, itemErrs |-> {NilErr},
     ambients |-> {AmbientRecording, AmbientNotRecording},
     conns |-> ConnChoices,
     stmts |-> {StmtSelect,
                CommentLine(Marker.hash, Body.ok2, FALSE) \o <<"\n">> \o StmtSelect},
     batchNil |-> {FALSE}]

InitOptions ==
    /\ InitHooks(AttributeOptionLists,
                 {[inst |-> "instrument", err |-> NilErr]},
                 {[inst |-> "instrument", err |-> NilErr]})
    /\ StatsNotStarted

NextOptions == NextHooks(OptionsInputs)

SpecOptions == InitOptions /\ [][NextOptions]_vars

\* A query or a batch (call 1) and a prepare the driver runs inside it
\* (call 2), on the context the outer start hook returned.
NestedInputs ==
    [calls |-> {1}, errs |-> {NilErr, ctxCanceled}, itemErrs |-> {NilErr},
     ambients |-> {AmbientRecording, AmbientNotRecording},
     conns |-> {SomeConfig}, stmts |-> Statements, batchNil |-> {FALSE}]

NextNested ==
    \/ Tick
    \/ TraceQueryStart(1, NestedInputs) \/ TraceQueryEnd(1, NestedInputs)
    \/ TraceBatchStart(1, NestedInputs) \/ TraceBatchQuery(1, NestedInputs)
    \/ TraceBatchEnd(1, NestedInputs)
    \/ TracePrepareStartInside(2, 1, NestedInputs) \/ TracePrepareEnd(2, NestedInputs)
    \/ \E c \in Calls : StartBuild(c) \/ StartSpan(c) \/ ItemBuild(c) \/ ItemSpan(c)

SpecNested == InitConcurrent /\ [][NextNested]_vars

\* One database call on a Tracer built with meter attributes, given with
\* one option or with two.
MeterAttributeOptionLists ==
    {<<>>,
     <<"WithMeterAttributes">>,
     <<"WithMeterAttributes", "WithMeterAttributes(team)">>,
     <<"WithMeterAttributes(team)", "WithMeterAttributes">>}

MeterAttributeInputs ==
    [calls |-> {1}, errs |-> {NilErr, pgError}, itemErrs |-> {NilErr, pgError},
     ambients |-> {AmbientRecording, AmbientNotRecording},
     conns |-> {SomeConfig}, stmts |-> Statements, batchNil |-> {FALSE}]

InitMeterAttributes ==
    /\ InitHooks(MeterAttributeOptionLists,
                 {[inst |-> "instrument", err |-> NilErr]},
                 {[inst |-> "instrument", err |-> NilErr]})
    /\ StatsNotStarted

NextMeterAttributes == NextHooks(MeterAttributeInputs)

SpecMeterAttributes == InitMeterAttributes /\ [][NextMeterAttributes]_vars

\* End hooks without start hook, every kind and every driver error.
NextUnmatchedEnd ==
    \/ Tick
    \/ \E c \in Calls : UnmatchedEndHook(c, FullInputs)

SpecUnmatchedEnd == Init /\ [][NextUnmatchedEnd]_vars

\* One database call whose end hook is invoked again with the same context.
RepeatedEndInputs ==
    [calls |-> {1}, errs |-> {NilErr, ctxCanceled}, itemErrs |-> {ctxCanceled},
     ambients |-> AmbientChoices,
     conns |-> {SomeConfig}, stmts |-> Statements, batchNil |-> {FALSE}]

NextRepeatedEnd ==
    \/ NextHooks(RepeatedEndInputs)
    \/ \E c \in RepeatedEndInputs.calls, err \in RepeatedEndInputs.errs :
          EndHookAgain(c, err)

SpecRepeatedEnd == InitConcurrent /\ [][NextRepeatedEnd]_vars

\* The sampler of one pool: its setup, and the invocations of its callback.
InitStats ==
    /\ InitHooks({<<"WithTracerProvider(nil)", "WithMeterProvider(nil)">>},
                 {[inst |-> "instrument", err |-> NilErr]},
                 {[inst |-> "instrument", err |-> NilErr]})
    /\ RecordStatsEntered(StatsOptionLists)

NextStats ==
    \/ CreateInstrument
    \/ RegisterCallback
    \/ SetupReturn
    \/ PoolActivity
    \/ Elapse
    \/ \E i \in Invocations :
          \/ CallbackEnter(i)
          \/ CallbackLock(i)
          \/ CallbackRefresh(i)
          \/ CallbackObserve(i)
          \/ CallbackReturn(i)

SpecStats == InitStats /\ [][NextStats]_vars

\* The sampler and its mutex, with the scheduling: the setup, successful or
\* failing at any instrument, and the invocations the backend makes, at one
\* moment and with a pool at rest (neither matters to the mutex).  The
\* goroutine of the setup and the goroutine of an invocation go on while they
\* can take a step, and an invocation that waits for the mutex gets it if it
\* is free again and again (sync.Mutex hands the mutex to a waiter that has
\* waited long).  Whether the backend invokes the callback is not required.
InitStatsFair ==
    /\ InitHooks({<<"WithTracerProvider(nil)", "WithMeterProvider(nil)">>},
                 {[inst |-> "instrument", err |-> NilErr]},
                 {[inst |-> "instrument", err |-> NilErr]})
    /\ RecordStatsEntered({<<>>, <<WithMinimumReadDBStatsInterval(0)>>,
                           <<WithStatsMeterProvider(NilProvider)>>})

NextStatsFair ==
    \/ CreateInstrument
    \/ RegisterCallback
    \/ SetupReturn
    \/ \E i \in Invocations :
          \/ CallbackEnter(i)
          \/ CallbackLock(i)
          \/ CallbackRefresh(i)
          \/ CallbackObserve(i)
          \/ CallbackReturn(i)

SpecStatsFair ==
    /\ InitStatsFair /\ [][NextStatsFair]_vars
    /\ WF_vars(CreateInstrument) /\ WF_vars(RegisterCallback) /\ WF_vars(SetupReturn)
    /\ \A i \in Invocations :
          /\ SF_vars(CallbackLock(i))
          /\ WF_vars(CallbackRefresh(i))
          /\ WF_vars(CallbackObserve(i))
          /\ WF_vars(CallbackReturn(i))

---------------------------------------------------------------------------
(* What the claims speak of. *)

\* The error matches the no-rows sentinel.
MatchesNoRows(err) == \E i \in 1..Len(err) : err[i].type = "sql.ErrNoRows"

\* Reportable: neither nil nor the no-rows sentinel.
Reportable(err) == err # NilErr /\ ~MatchesNoRows(err)

CarriesPgCode(err) == \E i \in 1..Len(err) : err[i].code # ""

ReportableCount(errs) == Cardinality({i \in 1..Len(errs) : Reportable(errs[i])})

\* The calls the error counter and the histogram received for call c.
AddsOf(c) == {i \in 1..Len(errorAdds) : errorAdds[i].ctx.req = c}
SamplesOf(c) == {i \in 1..Len(durationSamples) : durationSamples[i].ctx.req = c}

\* The attribute set carries the operation-type tag of this kind and of no other.
TaggedWith(attrs, kind) ==
    /\ <<PGXOperationTypeKey, kind>> \in attrs
    /\ \A k \in OperationKinds \ {kind} : <<PGXOperationTypeKey, k>> \notin attrs

StartReturned(c) == calls[c].pc \in {"inflight", "item_build", "item_span", "ended"}
Ended(c) == calls[c].pc = "ended"

\* The start hook of call c opened a span: the context it returned carries a
\* span other than the caller's.
SpanOpened(c) == StartReturned(c) /\ calls[c].ctx.span # calls[c].ambient
CallSpan(c) == calls[c].ctx.span

\* The spans the per-item hook opened for call c, and the k-th of them.
ItemSpanIds(c) ==
    {s \in 1..Len(spans) : spans[s].byCall = c /\ spans[s].byHook = "batch_query"}
ItemSpan_k(c, k) ==
    CHOOSE s \in ItemSpanIds(c) : Cardinality({x \in ItemSpanIds(c) : x <= s}) = k

HasAttr(s, key, val) ==
    \E i \in 1..Len(spans[s].attrs) :
        spans[s].attrs[i][1] = key /\ spans[s].attrs[i][2] = val

MarkedErrored(s, err) ==
    /\ spans[s].status = [code |-> "Error", msg |-> ErrorMessage(err)]
    /\ \E i \in 1..Len(spans[s].events) : spans[s].events[i] = ErrorMessage(err)

NotMarkedErrored(s) == spans[s].status.code = "Unset" /\ spans[s].events = <<>>

\* The span s shows the outcome err the way the claim asks.
SpanShows(s, err) ==
    IF Reportable(err)
    THEN /\ MarkedErrored(s, err)
         /\ CarriesPgCode(err) => HasAttr(s, SQLStateKey, "23505")
    ELSE NotMarkedErrored(s)

---------------------------------------------------------------------------
(* C1.  For the six end hooks and the per-item hook: a nil error or one    *)
(* matching the no-rows sentinel adds nothing to the error counter and     *)
(* leaves the span unmarked; any other error (a cancellation too) adds     *)
(* exactly one to the counter of the hook's operation kind and marks the   *)
(* opened span errored with the error's message, with the PostgreSQL code  *)
(* as pgx.sql_state when the error carries one.                            *)
C1_ErrorClassification ==
    \A c \in Calls :
        StartReturned(c) =>
            /\ Cardinality(AddsOf(c)) =
                  ReportableCount(calls[c].itemErrs)
                  + (IF Ended(c) /\ Reportable(calls[c].err) THEN 1 ELSE 0)
            /\ \A i \in AddsOf(c) :
                  errorAdds[i].n = 1 /\ TaggedWith(errorAdds[i].attrs, calls[c].kind)
            /\ (Ended(c) /\ SpanOpened(c)) => SpanShows(CallSpan(c), calls[c].err)
            /\ \A k \in 1..Cardinality(ItemSpanIds(c)) :
                  SpanShows(ItemSpan_k(c, k), calls[c].itemErrs[k])

C1_Witness ==
    \E c \in Calls :
        /\ Ended(c) /\ SpanOpened(c)
        /\ calls[c].kind = pgxOperationBatch
        /\ calls[c].err = wrappedPgError
        /\ calls[c].itemErrs = <<sqlErrNoRows, ctxCanceled>>
        /\ Cardinality(AddsOf(c)) = 2
        /\ HasAttr(CallSpan(c), SQLStateKey, "23505")
        /\ Cardinality(ItemSpanIds(c)) = 2

(* C2.  A start hook followed by its end hook records exactly one duration *)
(* sample, tagged with the call's kind, whether or not a span was opened;  *)
(* the start time is in the context as soon as the start hook is past its  *)
(* first statement, recording or not; a reportable error is counted also   *)
(* when no span was opened.                                                *)
C2_OneDurationSample ==
    \A c \in Calls :
        /\ calls[c].pc # "idle" =>
              calls[c].ctx.hasStart /\ calls[c].ctx.startTime = calls[c].startedAt
        /\ (calls[c].pc # "idle" /\ ~Ended(c)) => SamplesOf(c) = {}
        /\ Ended(c) =>
              /\ Cardinality(SamplesOf(c)) = 1
              /\ \A i \in SamplesOf(c) :
                    TaggedWith(durationSamples[i].attrs, calls[c].kind)
              /\ (~SpanOpened(c) /\ Reportable(calls[c].err)) =>
                    \E i \in AddsOf(c) : TaggedWith(errorAdds[i].attrs, calls[c].kind)

C2_Witness ==
    \E c \in Calls :
        /\ Ended(c) /\ ~SpanOpened(c)
        /\ calls[c].ambient = AmbientNotRecording
        /\ calls[c].kind = pgxOperationAcquire
        /\ calls[c].err = ctxCanceled
        /\ Cardinality(SamplesOf(c)) = 1
        /\ Cardinality(AddsOf(c)) = 1

(* C3.  With calls in flight whose hooks interleave, every end hook takes  *)
(* the duration from the time its own start hook stored and ends the span  *)
(* its own start hook opened: a sample is the time between the start and   *)
(* the end of the call it belongs to, the span in a call's context was     *)
(* opened by that call, is ended once and only by that call's end hook,    *)
(* and shows that call's error; a recording span of a caller is never      *)
(* ended, and no caller's span takes an error.  The buffers are reused     *)
(* between the calls meanwhile.                                            *)
C3_OwnTimestampAndSpan ==
    /\ \A i \in 1..Len(durationSamples) :
          LET e == durationSamples[i]
              c == e.ctx.req
          IN  /\ Ended(c)
              /\ e.ctx.startTime = calls[c].startedAt
              /\ e.ms = Milliseconds(e.at - calls[c].startedAt)
    /\ \A c \in Calls :
          SpanOpened(c) =>
              LET s == CallSpan(c)
              IN  /\ spans[s].byCall = c
                  /\ spans[s].byHook = calls[c].kind
                  /\ spans[s].parent = calls[c].ambient
                  /\ Ended(c) =>
                        spans[s].endCalls = 1 /\ spans[s].ended
                        /\ SpanShows(s, calls[c].err)
                  /\ ~Ended(c) =>
                        spans[s].endCalls = 0 /\ ~spans[s].ended /\ NotMarkedErrored(s)
    /\ spans[AmbientRecording].endCalls = 0
    /\ \A s \in {AmbientRecording, AmbientNotRecording} :
          ~spans[s].ended /\ NotMarkedErrored(s)

C3_Witness ==
    /\ calls[1].startedAt # calls[2].startedAt
    /\ Ended(1) /\ SpanOpened(1) /\ SpanOpened(2) /\ ~Ended(2)
    /\ calls[1].err = ctxCanceled
    /\ spans[CallSpan(2)].byCall = 2
    /\ CallSpan(2) < CallSpan(1)
    /\ Len(attrPool.mem) = 1
    /\ \E i \in SamplesOf(1) : durationSamples[i].ms = 3

(* C7.  A failure to create the duration histogram or the error counter    *)
(* is handed to the error handler, NewTracer returns a Tracer all the      *)
(* same, and no later hook fails: every start, per-item and end hook       *)
(* returns, and an ended call has its sample recorded or skipped.          *)
C7_NoHookFails ==
    /\ \A f \in {"operationDuration", "operationErrors"} :
          meter[f].err # NilErr =>
              \E i \in 1..Len(handled) : handled[i] = meter[f].err
    /\ Len(handled) =
          Cardinality({f \in {"operationDuration", "operationErrors"} :
                          meter[f].err # NilErr})
    /\ \A c \in Calls :
          /\ calls[c].pc # "panicked"
          /\ Ended(c) => Cardinality(SamplesOf(c)) <= 1

C7_Witness ==
    /\ Len(handled) = 2
    /\ \E c \in Calls :
          /\ Ended(c)
          /\ calls[c].kind = pgxOperationBatch
          /\ calls[c].err = pgError
          /\ calls[c].itemErrs = <<pgError>>

(* C10.  Every per-item hook invocation of a batch whose error is          *)
(* reportable adds one to the batch error counter, apart from what the     *)
(* batch end hook adds and also when no span is recording; the per-item    *)
(* hook records no duration: k failing items and a failing end give k + 1  *)
(* additions and one duration sample, all tagged as batch.                 *)
C10_BatchItemErrors ==
    \A c \in Calls :
        (StartReturned(c) /\ calls[c].kind = pgxOperationBatch) =>
            LET k == ReportableCount(calls[c].itemErrs)
            IN  /\ ~Ended(c) =>
                      Cardinality(AddsOf(c)) = k /\ SamplesOf(c) = {}
                /\ (Ended(c) /\ Reportable(calls[c].err)) =>
                      Cardinality(AddsOf(c)) = k + 1 /\ Cardinality(SamplesOf(c)) = 1
                /\ (Ended(c) /\ ~Reportable(calls[c].err)) =>
                      Cardinality(AddsOf(c)) = k /\ Cardinality(SamplesOf(c)) = 1
                /\ \A i \in AddsOf(c) :
                      errorAdds[i].n = 1
                      /\ TaggedWith(errorAdds[i].attrs, pgxOperationBatch)

C10_Witness ==
    \E c \in Calls :
        /\ Ended(c) /\ ~SpanOpened(c)
        /\ calls[c].kind = pgxOperationBatch
        /\ calls[c].itemErrs = <<ctxCanceled, pgError>>
        /\ calls[c].err = ctxCanceled
        /\ Cardinality(AddsOf(c)) = 3
        /\ Cardinality(SamplesOf(c)) = 1

---------------------------------------------------------------------------
(* What the claims about the sampler speak of. *)

\* The interval tests before the j-th that read the pool statistics, and
\* the last of them.
ReadsBefore(j) == {k \in 1..(j - 1) : checks[k].read}
LastReadBefore(j) == CHOOSE k \in ReadsBefore(j) : \A m \in ReadsBefore(j) : m <= k

ReadCount(n) == Cardinality({k \in 1..n : checks[k].read})

\* Every observation of invocation i made so far shows the value of stat.
ObservedFrom(i, stat) ==
    \A k \in 1..Len(observations[i]) :
        /\ observations[i][k].instrument = InstrumentNames[k]
        /\ observations[i][k].value = ObservedValue(stat, k)

\* Invocation i is between lock.Lock() and the deferred Unlock.
InSection(i) == inv[i].pc \in {"refresh", "observe"}

\* A creation of an instrument was refused.
CreationFailed == Len(backend.asked) > Len(backend.instruments)

(* C4.  An invocation of the callback reads the pool statistics if and     *)
(* only if none has read them before or at least the minimum interval D    *)
(* has passed since the previous read; an invocation that does not read    *)
(* observes from the snapshot of the previous read.  With D = 1 second,    *)
(* two invocations less than a second apart read once together, and two    *)
(* more than a second apart read twice.                                    *)
C4_RateLimitedRead ==
    LET D == sampler.minimumReadDBStatsInterval
    IN  /\ \A j \in 1..Len(checks) :
              /\ checks[j].read <=>
                    \/ ReadsBefore(j) = {}
                    \/ checks[j].at.us - checks[LastReadBefore(j)].at.us >= D
              /\ ~checks[j].read =>
                    ObservedFrom(checks[j].by, checks[LastReadBefore(j)].stat)
        /\ (D = defaultMinimumReadDBStatsInterval /\ Len(checks) >= 2) =>
              /\ checks[2].at.us - checks[1].at.us < 1000000 => ReadCount(2) = 1
              /\ checks[2].at.us - checks[1].at.us > 1000000 => ReadCount(2) = 2

C4_Witness ==
    /\ sampler.minimumReadDBStatsInterval = defaultMinimumReadDBStatsInterval
    /\ Len(checks) = 3
    /\ checks[1].read /\ ~checks[2].read /\ checks[3].read
    /\ checks[2].at.us - checks[1].at.us = StatsTickMicros
    /\ checks[3].at.us - checks[1].at.us >= defaultMinimumReadDBStatsInterval
    /\ Len(observations[checks[2].by]) = InstrumentCount
    /\ checks[1].stat # dbPool

(* C5.  Within one invocation of the callback all twelve observed values   *)
(* come from one read of the pool statistics, the last one made up to the  *)
(* invocation's interval test, also when the pool's counters change while  *)
(* the invocation runs.                                                    *)
C5_OneSnapshotPerInvocation ==
    \A j \in 1..Len(checks) :
        LET r == IF checks[j].read THEN j ELSE LastReadBefore(j)
        IN  /\ checks[r].read
            /\ ~checks[r].stat.isNil
            /\ ObservedFrom(checks[j].by, checks[r].stat)

C5_Witness ==
    \E i \in Invocations :
        /\ inv[i].pc = "done"
        /\ Len(observations[i]) = InstrumentCount
        /\ observations[i][1].value = 1
        /\ observations[i][12].value = 1
        /\ dbPool.AcquireCount = 2
        /\ \E j \in 1..Len(checks) :
              checks[j].by = i /\ checks[j].read /\ checks[j].stat.AcquireCount = 1

(* C6.  Two invocations of the callback are never both between the         *)
(* interval test and the last observation: the invocation in that section  *)
(* holds the mutex, which the setup holds until it returns, and the cached *)
(* snapshot stays the one the observing invocation observes from.          *)
C6_CallbackSectionExclusive ==
    /\ \A i, j \in Invocations : (InSection(i) /\ InSection(j)) => i = j
    /\ \A i \in Invocations :
          InSection(i) =>
              /\ lock = i
              /\ inv[i].pc = "observe" => ObservedFrom(i, sampler.dbStats)
    /\ setup.pc \in {"create", "register", "return"} =>
          lock = SetupHolder /\ \A i \in Invocations : ~InSection(i)

C6_Witness ==
    \E i, j \in Invocations :
        /\ i # j
        /\ inv[i].pc = "observe"
        /\ Len(observations[i]) = 5
        /\ inv[j].pc = "lock"
        /\ lock = i
        /\ dbPool # sampler.dbStats

(* C8.  When the creation of one of the twelve instruments fails, the      *)
(* setup stops there: no later instrument is asked for, the callback is    *)
(* never registered and nothing is ever observed, and the error returned   *)
(* wraps the backend's error and names the instrument that failed.         *)
C8_SetupStopsAtFailure ==
    CreationFailed =>
        LET k == Len(backend.asked)
            name == InstrumentNames[k]
        IN  /\ setup.pc \in {"return", "returned"}
            /\ backend.asked = SubSeq(InstrumentNames, 1, k)
            /\ backend.instruments = SubSeq(InstrumentNames, 1, k - 1)
            /\ backend.callbacks = 0
            /\ checks = <<>>
            /\ \A i \in Invocations : inv[i].pc = "idle" /\ observations[i] = <<>>
            /\ setup.err # NilErr
            /\ Tail(setup.err) = <<ErrLayer("metric.error", <<name>>, "")>>
            /\ setup.err[1].msg =
                  <<"failed to create asynchronous metric: ", name, " with error: ", name>>

C8_Witness ==
    /\ CreationFailed
    /\ setup.pc = "returned"
    /\ Len(backend.asked) = 5
    /\ backend.asked[5] = "pgxpool.constructing_connections"
    /\ now = MaxStatsTicks * StatsTickMicros
    /\ lock = Unlocked

(* C9.  The setup never ends partially registered: once it has returned an *)
(* error, none of the twelve instruments is registered with the backend;   *)
(* once it has returned nil, the twelve instruments and the callback are.  *)
C9_NeverPartiallyRegistered ==
    setup.pc = "returned" =>
        IF setup.err # NilErr
        THEN backend.instruments = <<>> /\ backend.callbacks = 0
        ELSE backend.instruments = InstrumentNames /\ backend.callbacks = 1

---------------------------------------------------------------------------
\* The buffers of a pool that are checked out.
CheckedOut(p) == (1..Len(p.mem)) \ p.free

\* Call c is inside a hook, between the Gets and the deferred Puts.
Borrowing(c) == calls[c].pc \in {"start_span", "item_span"}

(* C11.  The start hooks and the per-item hook put both borrowed buffers   *)
(* back on every way out and borrow none on the early return under a span  *)
(* that is not recording: the buffers checked out are those of the hooks   *)
(* that are running, one of each pool per hook, and none once the hooks    *)
(* have returned; a call whose span is not recording never makes a pool    *)
(* hand out a buffer.                                                      *)
C11_BuffersReturned ==
    /\ CheckedOut(attrPool) = {calls[c].attrsP : c \in {d \in Calls : Borrowing(d)}}
    /\ CheckedOut(optsPool) = {calls[c].optsP : c \in {d \in Calls : Borrowing(d)}}
    /\ \A c \in Calls :
          /\ ~Borrowing(c) => calls[c].attrsP = 0 /\ calls[c].optsP = 0
          /\ Borrowing(c) => calls[c].attrsP # 0 /\ calls[c].optsP # 0
    /\ (\A c \in Calls : ~Borrowing(c)) =>
          CheckedOut(attrPool) = {} /\ CheckedOut(optsPool) = {}
    /\ (\A c \in Calls : calls[c].pc # "idle" => calls[c].ambient # AmbientRecording) =>
          attrPool = EmptyPool /\ optsPool = EmptyPool

C11_Witness ==
    \E c \in Calls :
        /\ Ended(c) /\ SpanOpened(c)
        /\ calls[c].kind = pgxOperationBatch
        /\ calls[c].err = pgError
        /\ Cardinality(ItemSpanIds(c)) = 2
        /\ Len(attrPool.mem) = 1 /\ attrPool.free = {1}
        /\ Len(optsPool.mem) = 1 /\ optsPool.free = {1}

---------------------------------------------------------------------------
(* C12, as the claim has it.  After a call's end hook has returned, its    *)
(* context gives rise to no further duration sample and no further span    *)
(* end: at most one sample and at most one End per start hook, also when   *)
(* an end hook is invoked again with that context.                         *)
C12_CarrierInvalidated ==
    \A c \in Calls :
        /\ Cardinality(SamplesOf(c)) <= 1
        /\ SpanOpened(c) => spans[CallSpan(c)].endCalls <= 1

(* C12, amended.  The end hook does not invalidate the context: every      *)
(* invocation of an end hook with it records one duration sample and       *)
(* calls End on its span once, so one end hook per start hook gives one    *)
(* sample and one End.  The span itself is closed by the first End only:   *)
(* it stays ended, with the status and the error of the first end hook,    *)
(* whatever a later invocation reports.                                    *)
C12_OneSamplePerEndInvocation ==
    \A c \in Calls :
        /\ (StartReturned(c) /\ ~Ended(c)) => SamplesOf(c) = {}
        /\ Ended(c) =>
              /\ Cardinality(SamplesOf(c)) >= 1
              /\ calls[c].ctx.span # NoSpan =>
                    spans[calls[c].ctx.span].endCalls = Cardinality(SamplesOf(c))
              /\ SpanOpened(c) =>
                    spans[CallSpan(c)].ended /\ SpanShows(CallSpan(c), calls[c].err)

C12_Witness ==
    \E c \in Calls :
        /\ Ended(c) /\ SpanOpened(c)
        /\ calls[c].err = NilErr
        /\ Cardinality(SamplesOf(c)) = 3
        /\ spans[CallSpan(c)].endCalls = 3
        /\ Cardinality(AddsOf(c)) = 2
        /\ NotMarkedErrored(CallSpan(c))

---------------------------------------------------------------------------
\* The setup has returned nil.
SetupSucceeded == setup.pc = "returned" /\ setup.err = NilErr

\* The observations invocation i made on the instrument name.
ObservationsOn(i, name) ==
    {k \in 1..Len(observations[i]) : observations[i][k].instrument = name}

(* C13.  A setup that succeeds has registered one callback, for the twelve *)
(* instruments it created, and every invocation of the callback that has   *)
(* returned made one observation on each of the twelve instruments, none   *)
(* left out and none made twice; callbacks are registered by a successful  *)
(* setup only.                                                             *)
C13_TwelveObservationsPerInvocation ==
    /\ SetupSucceeded =>
          /\ backend.callbacks = 1
          /\ backend.instruments = InstrumentNames
          /\ backend.bound = backend.instruments
          /\ Cardinality({InstrumentNames[k] : k \in 1..InstrumentCount}) = 12
    /\ backend.callbacks <= 1
    /\ backend.callbacks = 1 => setup.err = NilErr /\ setup.pc \in {"return", "returned"}
    /\ \A i \in Invocations :
          /\ \A k \in 1..InstrumentCount :
                Cardinality(ObservationsOn(i, InstrumentNames[k])) <= 1
          /\ inv[i].pc = "done" =>
                /\ Len(observations[i]) = 12
                /\ \A k \in 1..InstrumentCount :
                      Cardinality(ObservationsOn(i, backend.bound[k])) = 1

C13_Witness ==
    /\ SetupSucceeded
    /\ inv[1].pc = "done" /\ inv[2].pc = "done"
    /\ Len(observations[1]) = 12 /\ Len(observations[2]) = 12
    /\ Len(checks) = 2 /\ ~checks[2].read

---------------------------------------------------------------------------
\* The attributes the caller of RecordStats supplied with WithStatsAttributes.
SuppliedStatsAttributes ==
    UNION {{setup.opts[n].attrs[m] : m \in 1..Len(setup.opts[n].attrs)} :
              n \in {x \in 1..Len(setup.opts) : setup.opts[x].opt = "WithStatsAttributes"}}

\* The pool of the model, as host:port/database
PoolIdentity == <<"db.local", ":", 5432, "/", "shop">>

(* C14.  Every observation of a sampler, on each of the twelve instruments *)
(* and in every invocation, carries the same attribute set, made once by   *)
(* the setup: the database system, the pool name host:port/database and    *)
(* the attributes supplied with the stats options.                         *)
C14_OneAttributeSet ==
    LET expected == {<<"db.system", "postgresql">>,
                     <<"db.client.connection.pool.name", PoolIdentity>>}
                    \cup SuppliedStatsAttributes
    IN  /\ backend.callbacks > 0 => sampler.observeOptions = expected
        /\ \A i \in Invocations :
              \A k \in 1..Len(observations[i]) : observations[i][k].attrs = expected

C14_Witness ==
    /\ SuppliedStatsAttributes = {<<"service.name", "orders">>}
    /\ inv[1].pc = "done" /\ inv[2].pc = "done"
    /\ Cardinality(observations[1][1].attrs) = 3
    /\ observations[2][12].attrs = observations[1][1].attrs
    /\ checks[2].read

---------------------------------------------------------------------------
\* The interval a list of stats options leaves when negative intervals are
\* ignored.
RECURSIVE IntervalIgnoringNegative(_, _)
IntervalIgnoringNegative(d, opts) ==
    IF opts = <<>> THEN d
    ELSE IntervalIgnoringNegative(
             IF Head(opts).opt = "WithMinimumReadDBStatsInterval" /\ Head(opts).interval >= 0
             THEN Head(opts).interval ELSE d,
             Tail(opts))

\* RecordStats was called and reached recordStats.
StatsStarted == setup.pc \notin {"not_called", "panicked"}

(* C15.  A negative minimum read interval is ignored: the sampler keeps    *)
(* the interval it had before, one second by default, and two reads of the *)
(* pool statistics are at least that interval apart.                       *)
C15_NegativeIntervalIgnored ==
    StatsStarted =>
        LET D == IntervalIgnoringNegative(defaultMinimumReadDBStatsInterval, setup.opts)
        IN  /\ sampler.minimumReadDBStatsInterval = D
            /\ \A j \in 1..Len(checks) :
                  (checks[j].read /\ ReadsBefore(j) # {}) =>
                      checks[j].at.us - checks[LastReadBefore(j)].at.us >= D

\* The provider a list of options leaves when a nil provider is ignored.
RECURSIVE ProviderIgnoringNil(_, _, _)
ProviderIgnoringNil(p, opts, given) ==
    IF opts = <<>> THEN p
    ELSE ProviderIgnoringNil(IF Head(opts) = given THEN GivenProvider ELSE p,
                             Tail(opts), given)

(* C16.  With no stats meter provider, or a nil one, the sampler setup     *)
(* uses the global meter provider and completes; a nil tracer or meter     *)
(* provider among the Tracer's options leaves the global provider in       *)
(* place.                                                                  *)
C16_NilProviderFallsBack ==
    /\ setup.pc # "panicked"
    /\ StatsStarted =>
          sampler.meter = ProviderIgnoringNil(GlobalProvider, setup.opts,
                                              WithStatsMeterProvider(GivenProvider))
    /\ tracer.tracer = ProviderIgnoringNil(GlobalProvider, options,
                                           "WithTracerProvider(given)")
    /\ tracer.meter = ProviderIgnoringNil(GlobalProvider, options,
                                          "WithMeterProvider(given)")

---------------------------------------------------------------------------
\* The span s carries an attribute under key.
HasKey(s, key) == \E i \in 1..Len(spans[s].attrs) : spans[s].attrs[i][1] = key

ConnectionKeys == {"server.address", "server.port", "user.name", "db.namespace"}

\* Call c was made with a nil connection (or pool, or configuration), or is a
\* batch whose batch handle is nil.
NilConnection(c) == calls[c].pc # "idle" /\ calls[c].conn.isNil
NilBatch(c) == calls[c].kind = pgxOperationBatch /\ calls[c].batchNil

(* C17.  A start hook handed a nil connection, configuration or pool, or a *)
(* nil batch, does not fail: under a recording span it opens its span      *)
(* all the same, without connection attributes for the nil connection and  *)
(* with batch size 0 for the nil batch, and the context it returns holds   *)
(* the start time.                                                         *)
C17_NilInputsTolerated ==
    \A c \in Calls :
        (NilConnection(c) \/ NilBatch(c)) =>
            /\ calls[c].pc # "panicked"
            /\ StartReturned(c) =>
                  /\ calls[c].ctx.hasStart /\ calls[c].ctx.startTime = calls[c].startedAt
                  /\ calls[c].ambient = AmbientRecording =>
                        /\ SpanOpened(c)
                        /\ spans[CallSpan(c)].byCall = c
                        /\ NilConnection(c) =>
                              \A k \in ConnectionKeys : ~HasKey(CallSpan(c), k)
                        /\ NilBatch(c) =>
                              /\ HasAttr(CallSpan(c), "db.operation.batch.size", 0)
                              /\ Cardinality({i \in 1..Len(spans[CallSpan(c)].attrs) :
                                    spans[CallSpan(c)].attrs[i][1] = "db.operation.batch.size"}) = 1

C17_Witness ==
    \E c \in Calls :
        /\ StartReturned(c) /\ SpanOpened(c)
        /\ NilConnection(c) /\ NilBatch(c)
        /\ calls[c].ambient = AmbientRecording
        /\ HasAttr(CallSpan(c), "db.operation.batch.size", 0)

---------------------------------------------------------------------------
\* The option opt is among those NewTracer was called with.
Supplied(opt) == \E i \in 1..Len(options) : options[i] = opt

\* The spans the hooks named in hooks opened.
SpansOf(hooks) == {s \in 1..Len(spans) : spans[s].byHook \in hooks}

StatementHooks == {pgxOperationQuery, "batch_query", pgxOperationPrepare}
SpanHooks == {pgxOperationQuery, pgxOperationCopy, pgxOperationBatch, "batch_query",
              pgxOperationConnect, pgxOperationPrepare, pgxOperationAcquire}

(* C18.  A span of the query hook or of the per-item hook carries the      *)
(* query-parameters attribute exactly when WithIncludeQueryParameters was  *)
(* supplied and WithDisableSQLStatementInAttributes was not, in whichever  *)
(* order the two were given; the attribute then holds the formatted        *)
(* arguments.                                                              *)
C18_ParametersNeedStatement ==
    \A s \in SpansOf({pgxOperationQuery, "batch_query"}) :
        /\ HasKey(s, QueryParametersKey) <=>
              (Supplied("WithIncludeQueryParameters")
               /\ ~Supplied("WithDisableSQLStatementInAttributes"))
        /\ HasKey(s, QueryParametersKey) =>
              \E args \in ArgLists : HasAttr(s, QueryParametersKey, makeParamsAttribute(args)[2])

C18_Witness ==
    /\ options = <<"WithIncludeQueryParameters", "WithDisableSQLStatementInAttributes">>
    /\ \E s \in SpansOf({"batch_query"}) :
          /\ spans[s].ended
          /\ ~HasKey(s, QueryParametersKey)

(* C19, as the claim has it.  With statement logging disabled no span of   *)
(* the query, per-item or prepare hook carries the statement text, the     *)
(* operation name or the parameters.                                       *)
C19_NoStatementAttributes ==
    Supplied("WithDisableSQLStatementInAttributes") =>
        \A s \in SpansOf(StatementHooks) :
            \A k \in {"db.query.text", "db.operation.name", QueryParametersKey} :
                ~HasKey(s, k)

(* C20.  With connection-detail logging disabled no span of the seven      *)
(* span-opening hooks carries host, port, user or database; with it        *)
(* enabled, a span of a call that had a connection configuration carries   *)
(* all four, with the values of that configuration.                        *)
C20_ConnectionDetails ==
    \A s \in SpansOf(SpanHooks) :
        LET conn == calls[spans[s].byCall].conn
        IN  /\ Supplied("WithDisableConnectionDetailsInAttributes") =>
                  \A k \in ConnectionKeys : ~HasKey(s, k)
            /\ (~Supplied("WithDisableConnectionDetailsInAttributes") /\ ~conn.isNil) =>
                  /\ HasAttr(s, "server.address", conn.Host)
                  /\ HasAttr(s, "server.port", conn.Port)
                  /\ HasAttr(s, "user.name", conn.User)
                  /\ HasAttr(s, "db.namespace", conn.Database)

C20_Witness ==
    /\ Supplied("WithDisableConnectionDetailsInAttributes")
    /\ \E s \in SpansOf({pgxOperationAcquire}) :
          /\ ~calls[spans[s].byCall].conn.isNil
          /\ \A k \in ConnectionKeys : ~HasKey(s, k)

---------------------------------------------------------------------------
\* The calls of the naming policy made so far.
NamingCalls == {named[i] : i \in 1..Len(named)}

\* A statement without a word, and the first word of one that has a word:
\* the characters from the first that is no whitespace up to the next
\* whitespace or the end.
AllSpace(s) == \A i \in 1..Len(s) : IsSpace(s[i])

FirstToken(s) ==
    LET i == CHOOSE x \in 1..Len(s) : ~IsSpace(s[x]) /\ \A y \in 1..(x - 1) : IsSpace(s[y])
        j == CHOOSE x \in i..Len(s) :
                 /\ \A y \in i..x : ~IsSpace(s[y])
                 /\ x = Len(s) \/ IsSpace(s[x + 1])
    IN  SubSeq(s, i, j)

(* C21.  The default naming policy gives UNKNOWN for a statement that is   *)
(* empty or all whitespace, and for any other statement its first          *)
(* whitespace-delimited token in upper case, blanks, tabs and newlines     *)
(* before and after the token being delimiters.                            *)
C21_DefaultPolicy ==
    tracer.spanNameFunc = DefaultPolicy =>
        \A e \in NamingCalls :
            /\ ~e.result.panic
            /\ AllSpace(e.stmt) => e.result.name = sqlOperationUnknown
            /\ ~AllSpace(e.stmt) =>
                  /\ Len(e.result.name) = Len(FirstToken(e.stmt))
                  /\ \A i \in 1..Len(e.result.name) :
                        e.result.name[i] = ToUpperChar(FirstToken(e.stmt)[i])

C21_Witness ==
    /\ tracer.spanNameFunc = DefaultPolicy
    /\ \E e \in NamingCalls :
          e.stmt = Stmt.padded /\ e.result.name = <<"S", "E", "L", "E", "C", "T">>
    /\ \E e \in NamingCalls :
          e.stmt = Stmt.blank /\ e.result.name = sqlOperationUnknown

---------------------------------------------------------------------------
\* The lines that start with a marker and carry a name annotation, well
\* formed or not; the first such line of a statement.
AnnotatedLines == CommentLines(WellFormedBodies \cup {Body.extra} \cup MalformedBodies)

LinesOf(stmt) == Split(stmt, "\n")

HasAnnotation(stmt) == \E i \in 1..Len(LinesOf(stmt)) : LinesOf(stmt)[i] \in AnnotatedLines

FirstAnnotatedLine(stmt) ==
    LinesOf(stmt)[CHOOSE i \in 1..Len(LinesOf(stmt)) :
                     /\ LinesOf(stmt)[i] \in AnnotatedLines
                     /\ \A j \in 1..(i - 1) : LinesOf(stmt)[j] \notin AnnotatedLines]

\* The calls made on a Tracer whose policy is the annotation-aware one.
AnnotationCalls == IF tracer.spanNameFunc = AnnotationPolicy THEN NamingCalls ELSE {}

(* C22, as the claim has it.  A statement whose annotation line is         *)
(* malformed (no colon, wrong spacing around "name:", fewer than two       *)
(* tokens after it) makes the annotation-aware policy return UNKNOWN: it   *)
(* does not fail and returns no partial name.                              *)
C22_MalformedGivesSentinel ==
    \A e \in AnnotationCalls :
        (HasAnnotation(e.stmt)
         /\ FirstAnnotatedLine(e.stmt) \in CommentLines(MalformedBodies)) =>
            e.result = Returned(sqlOperationUnknown)

(* C23.  A statement none of whose lines is a marker line with a name      *)
(* annotation (a bare marker, an ordinary comment, no comment at all)      *)
(* makes the annotation-aware policy return UNKNOWN, not the statement's   *)
(* first word.                                                             *)
C23_NoAnnotationGivesSentinel ==
    \A e \in AnnotationCalls :
        ~HasAnnotation(e.stmt) => e.result = Returned(sqlOperationUnknown)

C23_Witness ==
    \E e \in AnnotationCalls, f \in AnnotationCalls :
        /\ e.stmt = Marker.dash \o <<"\n">> \o Stmt.select
        /\ e.result.name = sqlOperationUnknown
        /\ f.stmt = Stmt.select
        /\ f.result.name = sqlOperationUnknown

\* The line "<marker> name: <N> <K>", closed by "*/" under the slash-star
\* marker, and the "<N> <K>" of its body.
WellFormedLine(m, body) == CommentLine(m, body, m = Marker.slashStar)
AnnotationOf(body) == SubSeq(body, Len(<<" ", "n", "a", "m", "e", ":", " ">>) + 1, Len(body))

(* C24.  When the first annotated line of a statement is                   *)
(* "<marker> name: <N> <K>" under one of the three markers, the            *)
(* annotation-aware policy returns "<N> <K>", whatever lines come before   *)
(* without annotation and whatever SQL comes after.                        *)
C24_AnnotationGivesName ==
    \A e \in AnnotationCalls :
        HasAnnotation(e.stmt) =>
            LET first == FirstAnnotatedLine(e.stmt)
            IN  \A m \in Markers, b \in WellFormedBodies :
                    first = WellFormedLine(m, b) => e.result = Returned(AnnotationOf(b))

C24_Witness ==
    \E e \in AnnotationCalls, f \in AnnotationCalls :
        /\ e.stmt = WellFormedLine(Marker.hash, Body.ok) \o <<"\n">> \o Stmt.select
        /\ e.result.name = <<"G", "e", "t", " ", ":", "m">>
        /\ f.stmt = CommentLine(Marker.hash, Body.comment, FALSE) \o <<"\n">>
                    \o WellFormedLine(Marker.slashStar, Body.ok2) \o <<"\n">> \o Stmt.select
        /\ f.result.name = AnnotationOf(Body.ok2)

---------------------------------------------------------------------------
\* The calls of the naming policy that have returned or panicked.
ReturnedNamingCalls == {named[i] : i \in {j \in 1..Len(named) : named[j].pc = "done"}}

\* Span s was opened for the statement, as its statement-text attribute has
\* it.
OpenedFor(s, stmt) == HasAttr(s, "db.query.text", stmt)

---------------------------------------------------------------------------
\* The result of the Tracer's naming policy on a statement; a prefix,
\* unless the prefix was disabled.
PolicyName(stmt) == TracerSqlOperationName(tracer, stmt).name
Prefixed(prefix, name) ==
    (IF Supplied("WithDisableQuerySpanNamePrefix") THEN <<>> ELSE prefix) \o name

(* C26.  A query span is named "query " and a prepare span "prepare "      *)
(* followed by the raw statement, or by the naming policy's result when    *)
(* trimming is enabled; a batch-item span is named "query " followed by    *)
(* the policy's result when trimming is enabled and "batch query "         *)
(* followed by the raw statement otherwise; with the prefix disabled the   *)
(* name is the statement or the policy's result alone.                     *)
C26_SpanNames ==
    \A stmt \in OptionsInputs.stmts :
        LET trimmed == IF Supplied("WithTrimSQLInSpanName") THEN PolicyName(stmt) ELSE stmt
        IN  /\ \A s \in SpansOf({pgxOperationQuery}) :
                  OpenedFor(s, stmt) => spans[s].name = Prefixed(<<"q", "u", "e", "r", "y", " ">>, trimmed)
            /\ \A s \in SpansOf({pgxOperationPrepare}) :
                  OpenedFor(s, stmt) => spans[s].name = Prefixed(<<"p", "r", "e", "p", "a", "r", "e", " ">>, trimmed)
            /\ \A s \in SpansOf({"batch_query"}) :
                  OpenedFor(s, stmt) =>
                      spans[s].name =
                          IF Supplied("WithTrimSQLInSpanName")
                          THEN Prefixed(<<"q", "u", "e", "r", "y", " ">>, trimmed)
                          ELSE Prefixed(<<"b", "a", "t", "c", "h", " ", "q", "u", "e", "r", "y", " ">>, trimmed)

C26_Witness ==
    /\ options = <<"WithTrimSQLInSpanName">>
    /\ \E s \in SpansOf({"batch_query"}) :
          /\ OpenedFor(s, StmtSelect)
          /\ spans[s].name = <<"q", "u", "e", "r", "y", " ", "S", "E", "L", "E", "C", "T">>

---------------------------------------------------------------------------
\* The metric names of the README's "Provided Metrics" table.
ProvidedMetrics ==
    {"pgxpool.acquire_duration", "pgxpool.acquired_connections", "pgxpool.acquires",
     "pgxpool.canceled_acquires", "pgxpool.constructing_connections",
     "pgxpool.empty_acquire", "pgxpool.empty_acquire_wait_time",
     "pgxpool.idle_connections", "pgxpool.max_connections",
     "pgxpool.max_idle_destroys", "pgxpool.max_lifetime_destroys",
     "pgxpool.new_connections", "pgxpool.total_connections"}

\* The names of the instruments the backend holds, and of those invocation
\* i of the callback observed.
RegisteredNames == {backend.instruments[k] : k \in 1..Len(backend.instruments)}
ObservedNames(i) == {observations[i][k].instrument : k \in 1..Len(observations[i])}

(* C27.  A sampler whose setup succeeded has registered an observable      *)
(* instrument for every metric of the README's "Provided Metrics" table,   *)
(* pgxpool.empty_acquire_wait_time among them, and for no other name, and  *)
(* every invocation of the callback that has returned observed every       *)
(* documented metric.                                                      *)
C27_DocumentedMetricsRegistered ==
    /\ RegisteredNames \subseteq ProvidedMetrics
    /\ SetupSucceeded => RegisteredNames = ProvidedMetrics
    /\ \A i \in Invocations : inv[i].pc = "done" => ObservedNames(i) = ProvidedMetrics

---------------------------------------------------------------------------
\* The start hook of call c returned under a span that is not recording: the
\* caller's context carried no span, or one that does not record.
NotRecording(ambient) == ambient = NoSpan \/ ~spans[ambient].recording
StartedNotRecording(c) == StartReturned(c) /\ NotRecording(calls[c].ambient)

(* C28.  A start hook called under an ambient span that is not recording   *)
(* opens no span and builds no attributes: the step of the hook leaves the *)
(* spans and both buffer pools as they were and returns at once, the       *)
(* context it returns is the caller's context, with the same ambient span, *)
(* plus the start time and nothing else, and no span is ever opened for    *)
(* that call, by the per-item hook either.                                 *)
C28_NotRecordingOpensNothing ==
    /\ [](\A c \in Calls :
            StartedNotRecording(c) =>
                /\ calls[c].ctx = WithStartTime(CallerContext(c, calls[c].ambient),
                                                calls[c].startedAt)
                /\ ~SpanOpened(c)
                /\ calls[c].attrsP = 0 /\ calls[c].optsP = 0
                /\ calls[c].pc \in {"inflight", "ended"}
                /\ \A s \in 1..Len(spans) : spans[s].byCall # c)
    /\ [][\A c \in Calls :
            (calls[c].pc = "idle" /\ calls'[c].pc # "idle"
             /\ NotRecording(calls'[c].ambient)) =>
                /\ calls'[c].pc = "inflight"
                /\ UNCHANGED <<spans, attrPool, optsPool>>]_vars

C28_Witness ==
    \E c \in Calls :
        /\ StartedNotRecording(c) /\ ~Ended(c)
        /\ calls[c].ambient = AmbientNotRecording
        /\ calls[c].kind = pgxOperationBatch
        /\ calls[c].items = MaxItems
        /\ calls[c].ctx.span = AmbientNotRecording
        /\ calls[c].ctx.hasStart

---------------------------------------------------------------------------
\* The spans opened for call c, by its start hook or by the per-item hook.
SpansOfCall(c) == {s \in 1..Len(spans) : spans[s].byCall = c}

(* C29.  Every span a start hook opened is ended exactly once, by the end  *)
(* hook of the same call, whether the call succeeded, failed or found no   *)
(* rows: the span is open and End was never called on it until the end     *)
(* hook runs, End is called on it in the step of that end hook and in no   *)
(* other, and once the end hook has returned no span opened for the call   *)
(* is still open.                                                          *)
C29_SpanEndedOnce ==
    /\ [](\A c \in Calls :
            /\ SpanOpened(c) =>
                  /\ ~Ended(c) => spans[CallSpan(c)].endCalls = 0 /\ ~spans[CallSpan(c)].ended
                  /\ Ended(c) => spans[CallSpan(c)].endCalls = 1
            /\ Ended(c) => \A s \in SpansOfCall(c) : spans[s].ended)
    /\ [][\A c \in Calls :
            (SpanOpened(c) /\ spans'[CallSpan(c)].endCalls # spans[CallSpan(c)].endCalls) =>
                calls[c].pc = "inflight" /\ calls'[c].pc = "ended"]_vars

C29_Witness ==
    \E c \in Calls :
        /\ Ended(c) /\ SpanOpened(c)
        /\ calls[c].kind = pgxOperationQuery
        /\ calls[c].err = pgxErrNoRows
        /\ spans[CallSpan(c)].endCalls = 1
        /\ spans[CallSpan(c)].ended

---------------------------------------------------------------------------
\* What a span shows: everything but the number of calls of End made on it.
Shown(span) == [span EXCEPT !.endCalls = 0]

\* A step in which the end hook of call c runs.
EndHookStep(c) == calls[c].pc = "inflight" /\ calls'[c].pc \in {"ended", "panicked"}

\* Call c has ended without a span of its own, on a caller's span.
EndedOnCallerSpan(c) == Ended(c) /\ ~SpanOpened(c) /\ calls[c].ambient # NoSpan

(* C30, as the claim has it.  When the start hook opened no span because   *)
(* the ambient span was not recording, the end hook does not end the       *)
(* ambient span: it makes no End call on it.                               *)
C30_AmbientSpanLeftAlone ==
    \A c \in Calls : EndedOnCallerSpan(c) => spans[calls[c].ambient].endCalls = 0

(* C30, amended.  An end hook works on the span bound to its context and   *)
(* on no other: its step opens no span and leaves every other span as it   *)
(* was, the End calls made on it included.  When the start hook opened no  *)
(* span because the ambient span was not recording, the bound span is the  *)
(* ambient span: the end hook makes its one End call on it, and the span,  *)
(* not recording, shows what it showed: not ended, not marked errored, no  *)
(* attribute and no event, whatever the error of the call.                 *)
C30_EndHookTouchesBoundSpanOnly ==
    /\ [][\A c \in Calls :
            EndHookStep(c) =>
                /\ Len(spans') = Len(spans)
                /\ \A s \in 1..Len(spans) : s = CallSpan(c) \/ spans'[s] = spans[s]
                /\ (~SpanOpened(c) /\ calls[c].ambient # NoSpan /\ calls'[c].pc = "ended") =>
                      /\ spans'[calls[c].ambient].endCalls
                            = spans[calls[c].ambient].endCalls + 1
                      /\ Shown(spans'[calls[c].ambient]) = Shown(spans[calls[c].ambient])]_vars
    /\ [](\A c \in Calls :
            EndedOnCallerSpan(c) =>
                Shown(spans[calls[c].ambient]) = AmbientSpans[calls[c].ambient])

C30_Witness ==
    \E c \in Calls :
        /\ Ended(c) /\ ~SpanOpened(c)
        /\ calls[c].ambient = AmbientNotRecording
        /\ calls[c].kind = pgxOperationQuery
        /\ calls[c].err = pgError
        /\ spans[AmbientNotRecording].endCalls = 1
        /\ ~spans[AmbientNotRecording].ended
        /\ NotMarkedErrored(AmbientNotRecording)

---------------------------------------------------------------------------
\* The hooks whose end hook sets the rows affected.
RowsHooks == {pgxOperationQuery, pgxOperationCopy}

(* C31.  A span carries the rows-affected attribute if and only if it was  *)
(* opened by the query or the copy start hook and the end hook of its call *)
(* has run with a nil error; the no-rows sentinel and every other error    *)
(* leave it out, the batch, connect, prepare and acquire end hooks and the *)
(* per-item hook never set it, and the caller's span never takes it.  The  *)
(* attribute appears in the step that ends the span, on a span that was    *)
(* still open.                                                             *)
C31_RowsAffectedOnSuccess ==
    /\ [](\A s \in 1..Len(spans) :
            HasKey(s, RowsAffectedKey) <=>
                /\ spans[s].byHook \in RowsHooks
                /\ Ended(spans[s].byCall)
                /\ calls[spans[s].byCall].err = NilErr)
    /\ [][\A s \in 1..Len(spans) :
            (~HasKey(s, RowsAffectedKey) /\ HasKey(s, RowsAffectedKey)') =>
                /\ ~spans[s].ended /\ spans'[s].ended
                /\ HasAttr(s, RowsAffectedKey, RowsAffected)']_vars

C31_Witness ==
    /\ \E c \in Calls :
          /\ Ended(c) /\ SpanOpened(c) /\ calls[c].kind = pgxOperationCopy
          /\ calls[c].err = NilErr
          /\ HasAttr(CallSpan(c), RowsAffectedKey, RowsAffected)
          /\ spans[CallSpan(c)].ended

\* The other cases of C31 happen: a query that found no rows, and a batch
\* that succeeded, both ended without the attribute.
C31_WitnessNoRows ==
    \E c \in Calls :
        /\ Ended(c) /\ SpanOpened(c) /\ calls[c].kind = pgxOperationQuery
        /\ calls[c].err = sqlErrNoRows
        /\ ~HasKey(CallSpan(c), RowsAffectedKey)

---------------------------------------------------------------------------
\* Call c runs inside call o: its start hook got the context o's returned.
Inside(c, o) == calls[c].pc # "idle" /\ calls[c].outer = o

(* C32.  A start/end pair run on a context derived from the context of a   *)
(* call in flight (a prepare inside a query or a batch, the items of a     *)
(* batch) leaves the outer call's context as its start hook returned it:   *)
(* the same start time and the same span, in every step of the inner call. *)
(* The outer end hook records the time since the outer start and ends the  *)
(* outer span and no other, the inner end hook the time since the inner    *)
(* start, and the span of the inner call and of every item is a child of   *)
(* the outer call's span.                                                  *)
C32_NestedLeavesOuter ==
    /\ [](\A c \in Calls :
            /\ StartReturned(c) =>
                  /\ calls[c].ctx.hasStart /\ calls[c].ctx.startTime = calls[c].startedAt
                  /\ SpanOpened(c) => spans[CallSpan(c)].byCall = c
                                      /\ spans[CallSpan(c)].byHook = calls[c].kind
                  /\ SpanOpened(c) => (spans[CallSpan(c)].ended <=> Ended(c))
            /\ \A i \in SamplesOf(c) :
                  /\ Ended(c)
                  /\ durationSamples[i].ms
                        = Milliseconds(durationSamples[i].at - calls[c].startedAt)
            /\ Ended(c) => Cardinality(SamplesOf(c)) = 1
            /\ \A o \in Calls :
                  (Inside(c, o) /\ SpanOpened(c)) =>
                      SpanOpened(o) /\ spans[CallSpan(c)].parent = CallSpan(o)
            /\ \A s \in ItemSpanIds(c) : SpanOpened(c) /\ spans[s].parent = CallSpan(c))
    /\ [][\A o \in Calls :
            (StartReturned(o) /\ \E c \in Calls : c # o /\ calls'[c] # calls[c]) =>
                calls'[o].ctx = calls[o].ctx]_vars

C32_Witness ==
    /\ Inside(2, 1)
    /\ calls[1].kind = pgxOperationQuery /\ calls[2].kind = pgxOperationPrepare
    /\ Ended(1) /\ Ended(2) /\ SpanOpened(1) /\ SpanOpened(2)
    /\ calls[1].startedAt = 0 /\ calls[2].startedAt = TickMicros
    /\ \E i \in SamplesOf(1), j \in SamplesOf(2) :
          /\ durationSamples[i].ms = 3 /\ durationSamples[j].ms = 1
          /\ i > j
    /\ spans[CallSpan(2)].parent = CallSpan(1)

---------------------------------------------------------------------------
\* The meter attributes the options configured, and the attribute set a
\* sample of a kind is to carry: all of them and the tag of the kind.
ConfiguredMeterAttrs == ApplyOptions(defaultConfig, options).meterAttrs
ExpectedMetricAttrs(kind) ==
    {ConfiguredMeterAttrs[i] : i \in 1..Len(ConfiguredMeterAttrs)}
    \cup {<<PGXOperationTypeKey, kind>>}

(* C33.  For each of the six operation kinds the attribute set of the      *)
(* Tracer, and of every duration and error sample of that kind, is the     *)
(* configured meter attributes plus the operation-type tag of that kind:   *)
(* no other kind's tag, none of the configured attributes missing.  The    *)
(* sets and the configured attribute list are as the options gave them,    *)
(* and no hook changes the Tracer.                                         *)
C33_MetricAttributeSets ==
    /\ [](/\ \A kind \in OperationKinds :
                tracer.metricAttrs[kind] = ExpectedMetricAttrs(kind)
          /\ tracer.meterAttrs = ConfiguredMeterAttrs
          /\ \A i \in 1..Len(durationSamples) :
                durationSamples[i].attrs
                    = ExpectedMetricAttrs(calls[durationSamples[i].ctx.req].kind)
          /\ \A i \in 1..Len(errorAdds) :
                errorAdds[i].attrs = ExpectedMetricAttrs(calls[errorAdds[i].ctx.req].kind))
    /\ [][tracer' = tracer]_vars

---------------------------------------------------------------------------
\* An invocation of the callback is past its interval test.
PastIntervalTest(i) == inv[i].pc \in {"observe", "done", "panicked"}

(* C34.  The first invocation of the callback after the setup reads the    *)
(* pool statistics, whatever the minimum interval is (zero, positive or    *)
(* negative): the snapshot is absent exactly as long as no invocation has  *)
(* made its interval test, so that no invocation observes from an absent   *)
(* snapshot, and none fails.                                               *)
C34_FirstInvocationReads ==
    /\ checks # <<>> => checks[1].read /\ ~checks[1].stat.isNil
    /\ sampler.dbStats.isNil <=> checks = <<>>
    /\ sampler.lastDBStats.isZero <=> checks = <<>>
    /\ \A i \in Invocations :
          /\ PastIntervalTest(i) => ~sampler.dbStats.isNil
          /\ inv[i].pc # "panicked"
          /\ \A k \in 1..Len(observations[i]) :
                observations[i][k].value = ObservedValue(sampler.dbStats, k)
                \/ \E j \in 1..Len(checks) :
                      checks[j].read
                      /\ observations[i][k].value = ObservedValue(checks[j].stat, k)

C34_Witness ==
    /\ sampler.minimumReadDBStatsInterval < 0
    /\ Len(checks) = 2
    /\ checks[1].read /\ checks[1].at.us = 0
    /\ inv[1].pc = "done" /\ inv[2].pc = "done"
    /\ Len(observations[1]) = InstrumentCount

\* The same for the default interval of one second: the first invocation
\* reads at time 0, the second, within the second, does not.
C34_WitnessPositive ==
    /\ sampler.minimumReadDBStatsInterval = defaultMinimumReadDBStatsInterval
    /\ Len(checks) = 2
    /\ checks[1].read /\ checks[1].at.us = 0 /\ ~checks[2].read
    /\ inv[2].pc = "done"

---------------------------------------------------------------------------
\* The interval tests that read the pool statistics, and the last of them.
Reads == {k \in 1..Len(checks) : checks[k].read}
LastRead == CHOOSE k \in Reads : \A m \in Reads : m <= k

\* A step in which invocation i makes its interval test.
IntervalTest(i) == inv[i].pc = "refresh" /\ inv'[i].pc = "observe"

(* C35.  An invocation whose interval test finds the minimum interval not  *)
(* elapsed leaves the cached snapshot and the last-read time as they are;  *)
(* an invocation that reads replaces both in one step, holding the mutex;  *)
(* nothing else changes either.  At every point the last-read time is the  *)
(* time of the read that gave the cached snapshot.                         *)
C35_SnapshotAndTimestampTogether ==
    /\ [](Reads # {} =>
            /\ sampler.dbStats = checks[LastRead].stat
            /\ sampler.lastDBStats = checks[LastRead].at)
    /\ [](Reads = {} => sampler.dbStats.isNil /\ sampler.lastDBStats.isZero)
    /\ [][\A i \in Invocations :
            IntervalTest(i) =>
                LET test == checks'[Len(checks')]
                IN  /\ lock = i /\ Len(checks') = Len(checks) + 1 /\ test.by = i
                    /\ ~test.read =>
                          UNCHANGED <<sampler.dbStats, sampler.lastDBStats>>
                    /\ test.read =>
                          /\ sampler'.dbStats = dbPool
                          /\ sampler'.lastDBStats = [isZero |-> FALSE, us |-> now]]_vars
    /\ [][(\A i \in Invocations : ~IntervalTest(i)) =>
            UNCHANGED <<sampler.dbStats, sampler.lastDBStats>>]_vars

C35_Witness ==
    /\ Len(checks) = 3
    /\ checks[1].read /\ ~checks[2].read /\ checks[3].read
    /\ checks[3].stat # checks[1].stat
    /\ sampler.dbStats = checks[3].stat
    /\ sampler.lastDBStats = checks[3].at
    /\ sampler.lastDBStats.us > checks[2].at.us

---------------------------------------------------------------------------
\* The setup is over: recordStats returned, or RecordStats failed before it.
SetupOver == setup.pc \in {"returned", "panicked"}

(* C36.  The mutex of the sampler never deadlocks.  The setup holds it     *)
(* until it returns and has released it once it is over, on success and on *)
(* every failure; the mutex is held by the setup or by the one invocation  *)
(* between its Lock and its return, and by nothing else.  The setup        *)
(* eventually is over, and every invocation of the callback, one that the  *)
(* backend made while the setup still held the mutex included, eventually  *)
(* gets the mutex, completes and releases it.                              *)
C36_MutexNeverDeadlocks ==
    /\ [](/\ lock = SetupHolder <=> setup.pc \in {"create", "register", "return"}
          /\ \A i \in Invocations : lock = i <=> InSection(i)
          /\ (SetupOver /\ \A i \in Invocations : ~InSection(i)) => lock = Unlocked)
    /\ <>SetupOver
    /\ \A i \in Invocations :
          /\ (inv[i].pc = "lock") ~> (lock = i)
          /\ (inv[i].pc = "lock") ~> (inv[i].pc = "done" /\ lock # i)

C36_Witness ==
    /\ setup.pc = "return" /\ setup.err = NilErr
    /\ lock = SetupHolder
    /\ inv[1].pc = "lock" /\ inv[2].pc = "lock"

\* A setup that failed is over with the mutex free.
C36_WitnessFailure ==
    /\ setup.pc = "returned" /\ setup.err # NilErr /\ lock = Unlocked
    /\ Len(backend.instruments) = 3

---------------------------------------------------------------------------
\* The end hook of call c ran on a context without start time.
EndedUnstarted(c) == Ended(c) /\ ~calls[c].ctx.hasStart

(* C37.  An end hook whose context carries no start time, no start hook    *)
(* having run on it, records no duration sample, counts the error as every *)
(* end hook does (once, tagged with the hook's kind, unless the error is   *)
(* nil or the no-rows sentinel) and returns normally.                      *)
C37_EndWithoutStart ==
    \A c \in Calls :
        /\ calls[c].pc # "panicked"
        /\ EndedUnstarted(c) =>
              /\ SamplesOf(c) = {}
              /\ Cardinality(AddsOf(c)) = IF Reportable(calls[c].err) THEN 1 ELSE 0
              /\ \A i \in AddsOf(c) :
                    errorAdds[i].n = 1 /\ TaggedWith(errorAdds[i].attrs, calls[c].kind)

C37_Witness ==
    /\ EndedUnstarted(1) /\ EndedUnstarted(2)
    /\ calls[1].kind = pgxOperationConnect /\ calls[1].err = pgError
    /\ calls[2].kind = pgxOperationQuery /\ calls[2].err = sqlErrNoRows
    /\ Len(errorAdds) = 1 /\ durationSamples = <<>>
    /\ now > 0

---------------------------------------------------------------------------
\* The calls of the naming policy made by a build of the Tracer.
CallsOfBuild(build) == {e \in NamingCalls : e.build = build}

(* C38.  The build before Go 1.24 and the Go 1.24 build of the default     *)
(* naming policy return the same label for every statement: empty, only    *)
(* whitespace, one token, several tokens with any mix of blanks, tabs and  *)
(* newlines; and both return the result of the configured custom naming    *)
(* function instead whenever one is set.                                   *)
C38_BuildsAgree ==
    /\ \A e \in CallsOfBuild("go1.24"), f \in CallsOfBuild("!go1.24") :
           e.stmt = f.stmt => e.result = f.result
    /\ tracer.spanNameFunc = AnnotationPolicy =>
           \A e \in NamingCalls : e.result = defaultSpanNameFunc(e.stmt)

C38_Witness ==
    /\ tracer.spanNameFunc = DefaultPolicy
    /\ Len(named) = 2
    /\ named[1].build = "go1.24" /\ named[2].build = "!go1.24"
    /\ named[1].stmt = Stmt.padded /\ named[2].stmt = Stmt.padded
    /\ named[2].result = Returned(<<"S", "E", "L", "E", "C", "T">>)

C38_WitnessCustom ==
    /\ tracer.spanNameFunc = AnnotationPolicy
    /\ Len(named) = 2
    /\ named[1].build = "go1.24" /\ named[2].build = "!go1.24"
    /\ named[1].stmt = named[2].stmt
    /\ named[2].result = Returned(AnnotationOf(Body.ok))

---------------------------------------------------------------------------
\* A step of the per-item hook of call c: the hook up to its recording test,
\* the building of the attributes, or the span's start and end.
ItemHookStep(c) ==
    /\ calls[c].kind = pgxOperationBatch
    /\ calls[c].pc \in {"inflight", "item_build", "item_span"}
    /\ calls'[c] # calls[c]
    /\ calls'[c].pc \in {"inflight", "item_build", "item_span"}

\* The spans of the per-item hook, of whatever call.
ItemSpans == {s \in 1..Len(spans) : spans[s].byHook = "batch_query"}

(* C39.  The per-item hook of a batch opens a span only when the span of   *)
(* the batch context is recording, as a child of that span; the span shows *)
(* the item's error and is ended when the hook returns.  The hook leaves   *)
(* the batch context as it was, so the batch end hook ends the span the    *)
(* batch start hook opened and no item span.                               *)
C39_ItemSpans ==
    /\ [](\A c \in Calls :
            /\ \A s \in ItemSpanIds(c) :
                  /\ spans[s].parent = CallSpan(c)
                  /\ spans[CallSpan(c)].byHook = pgxOperationBatch
                  /\ spans[CallSpan(c)].byCall = c
                  /\ spans[s].ended /\ spans[s].endCalls = 1
            /\ \A k \in 1..Cardinality(ItemSpanIds(c)) :
                  SpanShows(ItemSpan_k(c, k), calls[c].itemErrs[k])
            /\ (Ended(c) /\ ItemSpanIds(c) # {}) =>
                  spans[CallSpan(c)].ended /\ spans[CallSpan(c)].endCalls = 1)
    /\ [][\A c \in Calls :
            /\ ItemHookStep(c) =>
                  /\ calls'[c].ctx = calls[c].ctx
                  /\ \A s \in 1..Len(spans) : spans'[s] = spans[s]
                  /\ Len(spans') > Len(spans) =>
                        /\ ~NotRecording(CallSpan(c))
                        /\ ~spans[CallSpan(c)].ended
            /\ (ItemHookStep(c) /\ NotRecording(CallSpan(c))) =>
                  spans' = spans /\ calls'[c].pc = "inflight"
            /\ (EndHookStep(c) /\ calls[c].kind = pgxOperationBatch) =>
                  \A s \in ItemSpans : spans'[s] = spans[s]]_vars

C39_Witness ==
    \E c \in Calls :
        /\ Ended(c) /\ calls[c].kind = pgxOperationBatch
        /\ calls[c].itemErrs = <<NilErr, pgError>>
        /\ Cardinality(ItemSpanIds(c)) = 2
        /\ NotMarkedErrored(ItemSpan_k(c, 1))
        /\ MarkedErrored(ItemSpan_k(c, 2), pgError)
        /\ spans[CallSpan(c)].byHook = pgxOperationBatch
        /\ spans[CallSpan(c)].ended
        /\ ItemSpan_k(c, 2) > CallSpan(c)

C39_WitnessNotRecording ==
    \E c \in Calls :
        /\ Ended(c) /\ calls[c].kind = pgxOperationBatch
        /\ calls[c].ambient # NoSpan /\ ~SpanOpened(c)
        /\ calls[c].itemErrs = <<pgError, pgError>>
        /\ ItemSpanIds(c) = {}

---------------------------------------------------------------------------
\* The hook call c is inside, and the attributes that hook appends for the
\* data it was called with, one after the other.
BorrowingHook(c) == IF calls[c].pc = "item_span" THEN "batch_query" ELSE calls[c].kind

RECURSIVE JoinChunks(_)
JoinChunks(chunks) ==
    IF chunks = <<>> THEN <<>> ELSE Head(chunks) \o JoinChunks(Tail(chunks))

OwnAttrs(c) == JoinChunks(AttrChunks(tracer, BorrowingHook(c), calls[c].data))

\* The step in which the hook call c is inside starts its span.
SpanStartStep(c) == Borrowing(c) /\ ~Borrowing(c)' /\ Len(spans') = Len(spans) + 1

(* C40.  Buffers are reused without leakage.  A hook that holds buffers    *)
(* holds them alone: no other running hook holds the same attribute or     *)
(* option buffer, and neither is idle in its pool.  What the hook hands to *)
(* the span is what it appended itself, from an empty slice: nothing a     *)
(* former call left in the array, nothing another call wrote meanwhile.    *)
(* The buffers go back to the pools in the step that starts the span, not  *)
(* before, and the span carries exactly the attributes of its own call.    *)
C40_BuffersNotShared ==
    /\ [](\A c \in Calls :
            Borrowing(c) =>
                /\ \A d \in Calls \ {c} :
                      Borrowing(d) =>
                          /\ calls[d].attrsP # calls[c].attrsP
                          /\ calls[d].optsP # calls[c].optsP
                /\ calls[c].attrsP \in CheckedOut(attrPool)
                /\ calls[c].optsP \in CheckedOut(optsPool)
                /\ OptionsAttrs(c) = OwnAttrs(c)
                /\ Len(optsPool.mem[calls[c].optsP]) = 2)
    /\ [][\A c \in Calls :
            SpanStartStep(c) =>
                /\ spans'[Len(spans')].byCall = c
                /\ spans'[Len(spans')].attrs = SetAttrs(<<>>, OwnAttrs(c))
                /\ calls[c].attrsP \in attrPool'.free
                /\ calls[c].optsP \in optsPool'.free]_vars

\* Two hooks hold buffers at the same time, a second buffer of each pool
\* came into being for that.
C40_Witness ==
    /\ Borrowing(1) /\ Borrowing(2)
    /\ calls[1].kind = pgxOperationQuery /\ calls[2].kind = pgxOperationBatch
    /\ Len(attrPool.mem) = 2 /\ Len(optsPool.mem) = 2
    /\ OwnAttrs(1) # OwnAttrs(2)

\* A buffer that held the longer attribute list of a query is used again
\* for a batch: the array keeps entries of the query behind those of the
\* batch, the span of the batch has none of them.
C40_WitnessReuse ==
    /\ calls[1].kind = pgxOperationQuery /\ Ended(1) /\ SpanOpened(1)
    /\ calls[2].kind = pgxOperationBatch /\ calls[2].pc = "inflight" /\ SpanOpened(2)
    /\ calls[2].items = 0
    /\ Len(attrPool.mem) = 1
    /\ Len(attrPool.mem[1]) > Len(spans[CallSpan(2)].attrs)
    /\ OpenedFor(CallSpan(1), StmtSelect)
    /\ ~OpenedFor(CallSpan(2), StmtSelect)

====
